---- MODULE Spec2Model ----
(***************************************************************************)
(* Asteroids Reborn: the per-frame entity simulation                       *)
(* (GameplayState.update and what it calls: Player.update, Enemy.update,   *)
(* Asteroid.update, Projectile.update, Powerup.update, check_collision,    *)
(* handle_asteroid_hit, handle_powerup_collected, player_destroyed).       *)
(*                                                                         *)
(* Numbers.  The program computes in floats; the model computes in fixed   *)
(* point: positions in whole pixels, velocities in whole pixels per        *)
(* second, angles in whole degrees, times in units of 0.1 ms (so that      *)
(* dt * 0.167 is a whole number), radii in tenths of a pixel (an ice       *)
(* asteroid has radius 0.9 * 25 = 22.5), accelerations and probabilities   *)
(* in hundredths.  Every product is rounded to the nearest unit.           *)
(* Distances are compared by their squares, which is exact.                *)
(*                                                                         *)
(* One call of GameplayState.update is a fixed sequence of steps, pc       *)
(* naming the next one: "idle" (between two frames, where key events       *)
(* arrive), then "enemy", "asteroids", "projectiles" (one step per         *)
(* projectile of the loop's snapshot), "powerups", back to "idle".  No     *)
(* step is optional: from "idle" the only way on is the whole sequence.    *)
(***************************************************************************)
EXTENDS Integers, Sequences, FiniteSets, TLC

VARIABLES
    player,       \* the Player object
    enemy,        \* the Enemy object
    asteroids,    \* GameplayState.asteroids, a list
    projectiles,  \* GameplayState.projectiles, a list
    powerups,     \* GameplayState.powerups, a list
    game,         \* score, level, game_over, level_cleared and the two timers
    pc,           \* the next step of update
    iter,         \* the ids of the projectile loop's snapshot still to visit
    nextId,       \* object identities handed out so far
    ticks,        \* completed calls of update
    events,       \* key events delivered so far
    game_state,   \* the GameState object: current_state, states_stack and
                  \* paused_gameplay_state
    obs           \* what the last step did (observation only, never read by a step)

vars == <<player, enemy, asteroids, projectiles, powerups, game, pc, iter,
          nextId, ticks, events, game_state, obs>>

----------------------------------------------------------------------------
(* Bounds of the model. *)

MaxTicks == 3
MaxEvents == 1
DT == 5000

(* Program constants. *)

SCREEN_WIDTH == 1280
SCREEN_HEIGHT == 720
ExplosionRadius == 100
AimCone == 20
PursuitCone == 30
RespawnTime == 80000
DeathInvulnerability == 30000
EnemyMaxHealth == 4
ScoreEnemyByPlayer == 500
ScoreEnemyByAsteroid == 250
PlayerLives == 3

----------------------------------------------------------------------------
(* Fixed-point arithmetic. *)

Abs(n) == IF n < 0 THEN -n ELSE n

Min(a, b) == IF a < b THEN a ELSE b

Max(a, b) == IF a > b THEN a ELSE b

\* n / d rounded to the nearest integer, halves away from zero (d > 0).
Round(n, d) == IF n >= 0 THEN (2 * n + d) \div (2 * d)
               ELSE -((2 * (-n) + d) \div (2 * d))

\* Python's x % m for m > 0: the result is in 0 .. m-1.
PyMod(x, m) == x % m

\* floor(sqrt(n)) for 0 <= n.
ISqrt(n) == CHOOSE r \in 0..2000 : r * r <= n /\ (r + 1) * (r + 1) > n

\* 1000 * sin of 0..90 degrees.
SinTable == <<0, 17, 35, 52, 70, 87, 105, 122, 139, 156, 174, 191, 208, 225,
    242, 259, 276, 292, 309, 326, 342, 358, 375, 391, 407, 423, 438, 454, 469,
    485, 500, 515, 530, 545, 559, 574, 588, 602, 616, 629, 643, 656, 669, 682,
    695, 707, 719, 731, 743, 755, 766, 777, 788, 799, 809, 819, 829, 839, 848,
    857, 866, 875, 883, 891, 899, 906, 914, 921, 927, 934, 940, 946, 951, 956,
    961, 966, 970, 974, 978, 982, 985, 988, 990, 993, 995, 996, 998, 999, 999,
    1000, 1000>>

\* 1000 * math.sin(math.radians(deg)), any whole number of degrees.
Sin(deg) ==
    LET a == PyMod(deg, 360)
    IN  IF a <= 90 THEN SinTable[a + 1]
        ELSE IF a <= 180 THEN SinTable[180 - a + 1]
        ELSE IF a <= 270 THEN -SinTable[a - 180 + 1]
        ELSE -SinTable[360 - a + 1]

\* 1000 * math.cos(math.radians(deg)).
Cos(deg) == Sin(deg + 90)

\* math.degrees(math.atan2(dy, dx)) to the whole degree, in -180 .. 180.
Atan2Deg(dy, dx) ==
    LET ax == Abs(dx)
        ay == Abs(dy)
        \* the angle of (ax, ay) in 0..90: the largest a with tan a <= ay/ax,
        \* moved up by one when the next degree is nearer
        lo == CHOOSE a \in 0..90 :
                  /\ Sin(a) * ax <= Cos(a) * ay
                  /\ (a = 90 \/ Sin(a + 1) * ax > Cos(a + 1) * ay)
        q  == IF lo < 90 /\ (Sin(lo + 1) * ax - Cos(lo + 1) * ay)
                              < (Cos(lo) * ay - Sin(lo) * ax)
              THEN lo + 1 ELSE lo
    IN  IF dx = 0 /\ dy = 0 THEN 0
        ELSE IF dx >= 0 /\ dy >= 0 THEN q
        ELSE IF dx < 0 /\ dy >= 0 THEN 180 - q
        ELSE IF dx < 0 /\ dy < 0 THEN q - 180
        ELSE -q

\* The square of the distance between two positions.
Dist2(x1, y1, x2, y2) == (x1 - x2) * (x1 - x2) + (y1 - y2) * (y1 - y2)

\* v * dt: the displacement in pixels of a velocity v over dt.
Step(v, dt) == Round(v * dt, 10000)

----------------------------------------------------------------------------
(* Entities.  Every entity has x, y and radius (in tenths of a pixel). *)

Sizes == {"large", "medium", "small"}

AsteroidTypes == {"normal", "ice", "mineral", "unstable"}

PowerupTypes == {"shield", "rapidfire", "extralife", "timeslow", "tripleshot", "magnet"}

\* Asteroid.__init__: the radius by size, an ice asteroid 0.9 of it.
AsteroidRadius(size, type) ==
    LET base == IF size = "large" THEN 400
                ELSE IF size = "medium" THEN 250 ELSE 150
    IN  IF type = "ice" THEN (base * 9) \div 10 ELSE base

\* Asteroid(x, y, vel_x, vel_y, size, asteroid_type), a new object id.
Asteroid(id, x, y, vx, vy, size, type) ==
    [id |-> id, x |-> x, y |-> y, vel_x |-> vx, vel_y |-> vy,
     size |-> size, type |-> type, radius |-> AsteroidRadius(size, type)]

\* Projectile(x, y, vel_x, vel_y): radius 3, life 3.0 s.
Projectile(id, x, y, vx, vy) ==
    [id |-> id, x |-> x, y |-> y, vel_x |-> vx, vel_y |-> vy,
     radius |-> 30, life |-> 30000]

\* Powerup(x, y, vel_x, vel_y, powerup_type): radius 25, life 13.0 s.
Powerup(id, x, y, vx, vy, type) ==
    [id |-> id, x |-> x, y |-> y, vel_x |-> vx, vel_y |-> vy,
     powerup_type |-> type, radius |-> 250, life |-> 130000]

\* Player(x, y).
Player(x, y) ==
    [x |-> x, y |-> y, vel_x |-> 0, vel_y |-> 0, rotation |-> 0, radius |-> 200,
     lives |-> PlayerLives,
     is_thrusting |-> FALSE, is_turning_left |-> FALSE,
     is_turning_right |-> FALSE, is_shooting |-> FALSE,
     invulnerable |-> FALSE, invulnerable_timer |-> 0,
     rapid_fire |-> FALSE, rapid_fire_timer |-> 0,
     shoot_cooldown |-> 0,
     time_slow |-> FALSE, time_slow_timer |-> 0,
     triple_shot |-> FALSE, triple_shot_timer |-> 0,
     magnet |-> FALSE, magnet_timer |-> 0, magnet_radius |-> 250]

\* A collision test that also holds when the two circles only touch.
CheckCollisionTouching(e1, e2) ==
    100 * Dist2(e1.x, e1.y, e2.x, e2.y) <= (e1.radius + e2.radius) * (e1.radius + e2.radius)

\* check_collision(entity1, entity2): distance < radius1 + radius2.
CheckCollision(e1, e2) ==
    100 * Dist2(e1.x, e1.y, e2.x, e2.y) < (e1.radius + e2.radius) * (e1.radius + e2.radius)

\* list.remove(x) by identity: the list without x.
ListRemove(list, id) == SelectSeq(list, LAMBDA e : e.id # id)

\* x in list, by identity.
InList(list, id) == \E i \in 1..Len(list) : list[i].id = id

\* The element of a list with a given identity.
ById(list, id) == list[CHOOSE i \in 1..Len(list) : list[i].id = id]

\* The list with its element of a given identity replaced.
Replace(list, e) == [i \in 1..Len(list) |-> IF list[i].id = e.id THEN e ELSE list[i]]

\* The identities of the objects in a list.
IdSet(list) == {list[i].id : i \in 1..Len(list)}

----------------------------------------------------------------------------
(* Player.update(dt). *)

\* The |velocity| > max_velocity clamp of Player.update and Enemy.update.
ClampSpeed(vx, vy, maxv) ==
    LET v2 == vx * vx + vy * vy
    IN  IF v2 > maxv * maxv
        THEN <<Round(vx * maxv, ISqrt(v2)), Round(vy * maxv, ISqrt(v2))>>
        ELSE <<vx, vy>>

\* The divisors of that clamp: "scale = self.max_velocity / velocity", reached
\* when velocity > max_velocity.
ClampDivisors(vx, vy, maxv) ==
    IF vx * vx + vy * vy > maxv * maxv THEN <<ISqrt(vx * vx + vy * vy)>> ELSE <<>>

\* vel *= friction, friction = 0.9999.
Friction(v) == Round(v * 9999, 10000)

\* A timer of Player.update that runs down and never clears its flag.
PlayerTimerNoExpiry(flag, timer, dt) ==
    IF flag THEN <<flag, timer - dt>> ELSE <<flag, timer>>

\* One power-up timer of Player.update: "if flag: timer -= dt; if timer <= 0: flag = False".
PlayerTimer(flag, timer, dt) ==
    IF flag THEN <<(timer - dt) > 0, timer - dt>> ELSE <<flag, timer>>

\* "Handle rotation": the rotation after it.
PlayerTurned(p, dt) ==
    LET turn == Round(180 * dt, 10000)
        r1   == IF p.is_turning_left THEN p.rotation - turn ELSE p.rotation
        r2   == IF p.is_turning_right THEN r1 + turn ELSE r1
    IN  PyMod(r2, 360)

\* "Handle thrust": the velocity after "Apply acceleration to velocity".
PlayerAccelerated(p, dt) ==
    <<p.vel_x + Round(Cos(PlayerTurned(p, dt)) * 200 * dt, 10000000),
      p.vel_y + Round(Sin(PlayerTurned(p, dt)) * 200 * dt, 10000000)>>

\* The divisors of Player.update.
PlayerDivisors(p, dt) ==
    IF p.is_thrusting
    THEN ClampDivisors(PlayerAccelerated(p, dt)[1], PlayerAccelerated(p, dt)[2], 300)
    ELSE <<>>

PlayerUpdate(p, dt) ==
    LET rot  == PlayerTurned(p, dt)
        v    == IF p.is_thrusting
                THEN ClampSpeed(PlayerAccelerated(p, dt)[1],
                                PlayerAccelerated(p, dt)[2], 300)
                ELSE <<p.vel_x, p.vel_y>>
        vx   == Friction(v[1])
        vy   == Friction(v[2])
        inv  == PlayerTimer(p.invulnerable, p.invulnerable_timer, dt)
        rap  == PlayerTimer(p.rapid_fire, p.rapid_fire_timer, dt)
        slo  == PlayerTimer(p.time_slow, p.time_slow_timer, dt)
        tri  == PlayerTimer(p.triple_shot, p.triple_shot_timer, dt)
        mag  == PlayerTimer(p.magnet, p.magnet_timer, dt)
        cd   == IF p.shoot_cooldown > 0
                THEN (IF rap[1] THEN p.shoot_cooldown - dt * 2
                      ELSE p.shoot_cooldown - dt)
                ELSE p.shoot_cooldown
    IN  [p EXCEPT !.rotation = rot, !.vel_x = vx, !.vel_y = vy,
                  !.x = p.x + Step(vx, dt), !.y = p.y + Step(vy, dt),
                  !.invulnerable = inv[1], !.invulnerable_timer = inv[2],
                  !.rapid_fire = rap[1], !.rapid_fire_timer = rap[2],
                  !.time_slow = slo[1], !.time_slow_timer = slo[2],
                  !.triple_shot = tri[1], !.triple_shot_timer = tri[2],
                  !.magnet = mag[1], !.magnet_timer = mag[2],
                  !.shoot_cooldown = cd]

\* One power-up timer of GameplayState.update:
\* "if flag and timer > 0: timer -= dt; if timer <= 0: flag = False".
StateTimer(flag, timer, dt) ==
    IF flag /\ timer > 0 THEN <<(timer - dt) > 0, timer - dt>> ELSE <<flag, timer>>

\* "Update power-up timers" of GameplayState.update.
UpdatePowerupTimers(p, dt) ==
    LET inv == StateTimer(p.invulnerable, p.invulnerable_timer, dt)
        rap == StateTimer(p.rapid_fire, p.rapid_fire_timer, dt)
        slo == StateTimer(p.time_slow, p.time_slow_timer, dt)
        tri == StateTimer(p.triple_shot, p.triple_shot_timer, dt)
        mag == StateTimer(p.magnet, p.magnet_timer, dt)
    IN  [p EXCEPT !.invulnerable = inv[1], !.invulnerable_timer = inv[2],
                  !.rapid_fire = rap[1], !.rapid_fire_timer = rap[2],
                  !.time_slow = slo[1], !.time_slow_timer = slo[2],
                  !.triple_shot = tri[1], !.triple_shot_timer = tri[2],
                  !.magnet = mag[1], !.magnet_timer = mag[2]]

\* The wrap of a coordinate c at the edges lo and hi: below lo to hi, above hi to lo.
Wrap(c, lo, hi) == IF c < lo THEN hi ELSE IF c > hi THEN lo ELSE c

\* "Wrap player position around screen edges".
WrapPlayer(p) ==
    [p EXCEPT !.x = Wrap(p.x, 0, SCREEN_WIDTH), !.y = Wrap(p.y, 0, SCREEN_HEIGHT)]

\* The shooting without the test of the cooldown.
PlayerShootAtWill(p, id) ==
    IF p.is_shooting
    THEN LET sx  == p.x + Round(Cos(p.rotation) * 25, 1000)
             sy  == p.y + Round(Sin(p.rotation) * 25, 1000)
             shot(k, a) == Projectile(id + k, sx, sy,
                                      Round(Cos(a) * 400, 1000) + Round(p.vel_x * 5, 10),
                                      Round(Sin(a) * 400, 1000) + Round(p.vel_y * 5, 10))
         IN  [p    |-> [p EXCEPT !.shoot_cooldown =
                                    IF p.rapid_fire THEN 1000 ELSE 2000],
              new  |-> IF p.triple_shot
                       THEN <<shot(0, p.rotation), shot(1, p.rotation - 20),
                              shot(2, p.rotation + 20)>>
                       ELSE <<shot(0, p.rotation)>>]
    ELSE [p |-> p, new |-> <<>>]

\* "Handle player shooting": the player after it and the projectiles it adds.
PlayerShoot(p, id) ==
    IF p.is_shooting /\ p.shoot_cooldown <= 0
    THEN LET sx  == p.x + Round(Cos(p.rotation) * 25, 1000)
             sy  == p.y + Round(Sin(p.rotation) * 25, 1000)
             hx  == Round(p.vel_x * 5, 10)
             hy  == Round(p.vel_y * 5, 10)
             shot(k, a) == Projectile(id + k, sx, sy,
                                      Round(Cos(a) * 400, 1000) + hx,
                                      Round(Sin(a) * 400, 1000) + hy)
         IN  [p    |-> [p EXCEPT !.shoot_cooldown =
                                    IF p.rapid_fire THEN 1000 ELSE 2000],
              new  |-> IF p.triple_shot
                       THEN <<shot(0, p.rotation), shot(1, p.rotation - 20),
                              shot(2, p.rotation + 20)>>
                       ELSE <<shot(0, p.rotation)>>]
    ELSE [p |-> p, new |-> <<>>]

----------------------------------------------------------------------------
(* Enemy.  The random draws of one call are its parameter r: a draw of      *)
(* random.random() is a number of ten-thousandths (0 .. 9999), a draw of    *)
(* random.uniform or random.choice the value drawn.                         *)

\* Enemy(x, y); r.shot_accuracy and r.strat_timer are __init__'s draws.
Enemy(x, y, r) ==
    [x |-> x, y |-> y, vel_x |-> 0, vel_y |-> 0, rotation |-> 0, radius |-> 200,
     health |-> EnemyMaxHealth, shoot_cooldown |-> 0, acceleration |-> 0,
     active |-> TRUE, respawn_timer |-> 0,
     behavior_timer |-> 0, behavior_state |-> "seek",
     has_last_player_pos |-> FALSE, last_x |-> 0, last_y |-> 0,
     last_detection_time |-> 0,
     avoiding_asteroid |-> FALSE, avoidance_direction |-> 0, avoidance_timer |-> 0,
     prediction_factor |-> 80, flanking_direction |-> r.flank,
     burst_fire_count |-> 0, burst_fire_cooldown |-> 0, burst_fire_delay |-> 0,
     shot_accuracy |-> r.shot_accuracy, burst_mode |-> FALSE,
     strategy_change_timer |-> r.strat_timer, aim_predict_time |-> 5000]

\* "Update strategy timer".
EnemyStrategy(e, dt, r) ==
    LET t == e.strategy_change_timer - dt
    IN  IF t <= 0
        THEN [e EXCEPT !.burst_mode = ~e.burst_mode,
                       !.flanking_direction = r.flank,
                       !.prediction_factor = r.pred,
                       !.aim_predict_time = r.aim,
                       !.strategy_change_timer = r.strat_timer]
        ELSE [e EXCEPT !.strategy_change_timer = t]

\* "Update avoidance timer" and "Update burst fire cooldowns".
EnemyTimers(e, dt) ==
    LET at == e.avoidance_timer - dt
    IN  [e EXCEPT !.avoidance_timer = IF e.avoiding_asteroid THEN at ELSE @,
                  !.avoiding_asteroid = e.avoiding_asteroid /\ at > 0,
                  !.burst_fire_delay = IF @ > 0 THEN @ - dt ELSE @,
                  !.burst_fire_cooldown = IF @ > 0 THEN @ - dt ELSE @]

\* The scan without the test of the course: the closest asteroid in range.
RECURSIVE ClosestAsteroidAnyCourse(_, _, _, _, _, _)
ClosestAsteroidAnyCourse(e, dt, list, i, closest, closest2) ==
    IF i > Len(list) THEN closest
    ELSE IF Dist2(list[i].x, list[i].y, e.x, e.y) < closest2
    THEN ClosestAsteroidAnyCourse(e, dt, list, i + 1, i,
                                  Dist2(list[i].x, list[i].y, e.x, e.y))
    ELSE ClosestAsteroidAnyCourse(e, dt, list, i + 1, closest, closest2)

\* The scan for the closest asteroid on a collision course: list[i..] scanned with
\* the closest so far (0: none) and the square of its distance.
RECURSIVE ClosestAsteroid(_, _, _, _, _, _)
ClosestAsteroid(e, dt, list, i, closest, closest2) ==
    IF i > Len(list) THEN closest
    ELSE LET a   == list[i]
             d2  == Dist2(a.x, a.y, e.x, e.y)
             nx  == a.x + Step(a.vel_x, dt) - e.x - Step(e.vel_x, dt)
             ny  == a.y + Step(a.vel_y, dt) - e.y - Step(e.vel_y, dt)
             n2  == nx * nx + ny * ny
         IN  IF d2 < closest2 /\ n2 < d2
             THEN ClosestAsteroid(e, dt, list, i + 1, i, d2)
             ELSE ClosestAsteroid(e, dt, list, i + 1, closest, closest2)

\* start_asteroid_avoidance(asteroid).
StartAsteroidAvoidance(e, a) ==
    LET dx    == e.x - a.x
        dy    == e.y - a.y
        cross == dx * a.vel_y - dy * a.vel_x
    IN  [e EXCEPT !.avoidance_direction = IF cross > 0 THEN 1 ELSE -1,
                  !.avoiding_asteroid = TRUE,
                  !.avoidance_timer = 10000,
                  !.behavior_state = "evade"]

\* "Check for nearby asteroids and try to avoid them" (asteroid_detection_range 180).
EnemyDetectAsteroid(e, dt, list) ==
    IF Len(list) > 0 /\ ~e.avoiding_asteroid
    THEN LET c == ClosestAsteroid(e, dt, list, 1, 0, 180 * 180)
         IN  IF c # 0 THEN StartAsteroidAvoidance(e, list[c]) ELSE e
    ELSE e

\* A re-selection that takes the choice of the far range at every distance.
UpdateBehaviorStateFar(e, px, py, r) ==
    IF e.avoiding_asteroid THEN e
    ELSE [e EXCEPT !.behavior_state = IF r.beh < 4000 THEN "seek"
                                      ELSE IF r.beh < 7000 THEN "ambush"
                                      ELSE "flank"]

\* update_behavior_state(player_x, player_y); r.beh is its one draw of random().
UpdateBehaviorState(e, px, py, r) ==
    LET d2 == Dist2(px, py, e.x, e.y)
        s  == IF d2 < 120 * 120
              THEN (IF e.health > 2
                    THEN (IF r.beh < 7000 THEN "attack" ELSE "evade")
                    ELSE (IF r.beh < 8500 THEN "evade" ELSE "attack"))
              ELSE IF d2 < 300 * 300
              THEN (IF e.health > 2
                    THEN (IF r.beh < 6000 THEN "attack"
                          ELSE IF r.beh < 8000 THEN "flank" ELSE "seek")
                    ELSE (IF r.beh < 4000 THEN "attack"
                          ELSE IF r.beh < 7000 THEN "flank"
                          ELSE IF r.beh < 9000 THEN "seek" ELSE "evade"))
              ELSE (IF r.beh < 4000 THEN "seek"
                    ELSE IF r.beh < 7000 THEN "ambush" ELSE "flank")
    IN  IF e.avoiding_asteroid THEN e ELSE [e EXCEPT !.behavior_state = s]

\* "Update AI behavior timer".
EnemyBehaviorTimer(e, dt, px, py, r) ==
    LET t == e.behavior_timer - dt
    IN  IF t <= 0 /\ ~e.avoiding_asteroid
        THEN [UpdateBehaviorState(e, px, py, r) EXCEPT !.behavior_timer = r.beh_timer]
        ELSE [e EXCEPT !.behavior_timer = t]

\* "Calculate shortest rotation to target": (target_angle - rotation) % 360 in -180 .. 180.
AngleDiff(target_angle, rotation) ==
    LET d == PyMod(target_angle - rotation, 360)
    IN  IF d > 180 THEN d - 360 ELSE d

\* A heading correction that turns by speed whatever the difference.
RotateTowardUncapped(rotation, angle_diff, speed) ==
    IF Abs(angle_diff) > 5
    THEN (IF angle_diff > 0 THEN rotation + speed ELSE rotation - speed)
    ELSE rotation

\* The heading correction: turn toward the target by at most speed, only when
\* the difference exceeds 5 degrees.
RotateToward(rotation, angle_diff, speed) ==
    IF Abs(angle_diff) > 5
    THEN (IF angle_diff > 0 THEN rotation + Min(speed, Abs(angle_diff))
          ELSE rotation - Min(speed, Abs(angle_diff)))
    ELSE rotation

\* The target computation dividing by length without "if length > 0".
TargetDivisorsUnguarded(e, px, py) ==
    LET len2 == (px - e.last_x) * (px - e.last_x) + (py - e.last_y) * (py - e.last_y)
        known == e.has_last_player_pos
    IN  (IF e.behavior_state # "ambush" /\ known /\ e.behavior_timer > 0
         THEN <<e.behavior_timer>> ELSE <<>>)
        \o (IF e.behavior_state = "flank" /\ known
            THEN <<ISqrt(len2)>> ELSE <<>>)
        \o (IF e.behavior_state = "ambush" /\ known /\ len2 > 5 * 5
            THEN <<ISqrt(len2)>> ELSE <<>>)

\* The divisors of the target computation of seek, attack, ambush and flank,
\* in the order of the code: time_since_last_pos when it is > 0, length when
\* it is > 0 (flank), dir_length when it is > 5 (ambush).
TargetDivisors(e, px, py) ==
    LET len2 == (px - e.last_x) * (px - e.last_x) + (py - e.last_y) * (py - e.last_y)
        known == e.has_last_player_pos
    IN  (IF e.behavior_state # "ambush" /\ known /\ e.behavior_timer > 0
         THEN <<e.behavior_timer>> ELSE <<>>)
        \o (IF e.behavior_state = "flank" /\ known /\ len2 > 0
            THEN <<ISqrt(len2)>> ELSE <<>>)
        \o (IF e.behavior_state = "ambush" /\ known /\ len2 > 5 * 5
            THEN <<ISqrt(len2)>> ELSE <<>>)

\* The target point of seek, attack, ambush and flank: the player's position, led
\* by the estimated velocity, offset sideways (flank) or ahead (ambush).
EnemyTarget(e, px, py) ==
    LET st    == e.behavior_state
        t     == e.behavior_timer
        lead  == st # "ambush" /\ e.has_last_player_pos /\ t > 0
        evx   == IF lead THEN Round((px - e.last_x) * 10000, t) ELSE 0
        evy   == IF lead THEN Round((py - e.last_y) * 10000, t) ELSE 0
        \* prediction_time = aim_predict_time * prediction_factor, in 0.1 ms
        ptime == Round(e.aim_predict_time * e.prediction_factor, 100)
        x1    == px + Step(evx, ptime)
        y1    == py + Step(evy, ptime)
        dirx  == px - e.last_x
        diry  == py - e.last_y
        len2  == dirx * dirx + diry * diry
        len   == ISqrt(len2)
        flank == st = "flank" /\ e.has_last_player_pos /\ len2 > 0
        x2    == IF flank
                 THEN x1 + Round(-diry * e.flanking_direction * 150, Max(len, 1))
                 ELSE x1
        y2    == IF flank
                 THEN y1 + Round(dirx * e.flanking_direction * 150, Max(len, 1))
                 ELSE y1
        amb   == st = "ambush" /\ e.has_last_player_pos /\ len2 > 5 * 5
    IN  IF amb THEN <<px + Round(dirx * 200, len), py + Round(diry * 200, len)>>
        ELSE <<x2, y2>>

\* The shooting logic without the test of the aim: a shot whenever the
\* cooldown allows one.
EnemyFireUnaimed(e, angle_diff, r) ==
    [e |-> [e EXCEPT !.shoot_cooldown = IF @ <= 0 THEN 9000 ELSE @],
     fire |-> e.shoot_cooldown <= 0]

\* "Shooting logic": the enemy after the decision and whether it fires.
\* r.acc is the draw of the accuracy test.
EnemyAimedFire(e, angle_diff, r) ==
    LET aim     == Abs(angle_diff)
        \* firing_accuracy = shot_accuracy * (1.0 - (aim / 20) * 0.3)
        firing  == Round(e.shot_accuracy * (10000 - 150 * aim), 10000)
        burst   == e.burst_mode /\ e.burst_fire_cooldown <= 0
        next    == burst /\ e.burst_fire_count > 0 /\ e.burst_fire_delay <= 0
        start   == burst /\ ~next /\ e.burst_fire_count = 0
        normal  == ~burst /\ e.shoot_cooldown <= 0
        e1      == IF next
                   THEN [e EXCEPT !.burst_fire_count = @ - 1, !.burst_fire_delay = 1500]
                   ELSE IF start
                   THEN [e EXCEPT !.burst_fire_count = 2,
                                  !.burst_fire_cooldown = 13500,
                                  !.burst_fire_delay = 1500]
                   ELSE IF normal
                   THEN [e EXCEPT !.shoot_cooldown = 9000]
                   ELSE e
        should  == next \/ start \/ normal
    IN  IF aim < AimCone
        THEN [e |-> e1, fire |-> should /\ ~(r.acc > firing)]
        ELSE [e |-> e, fire |-> FALSE]

\* The heading correction and the thrust of one behaviour.
EnemySteer(e, angle_diff, speed, acc) ==
    [e EXCEPT !.rotation = RotateToward(@, angle_diff, speed), !.acceleration = acc]

\* A shot fired outside the shooting logic: when fire holds, the cooldown is
\* set and update returns True.
EnemyShoot(e, fire, cooldown) ==
    [e |-> IF fire THEN [e EXCEPT !.shoot_cooldown = cooldown] ELSE e, fire |-> fire]

\* What one branch of the behaviour did: the enemy after it, whether update
\* returns True there, the branch, the target_angle and angle_diff it computed,
\* and the divisors of the divisions update made.
Decision(f, branch, target_angle, angle_diff) ==
    [e |-> f.e, fire |-> f.fire, branch |-> branch, target_angle |-> target_angle,
     angle_diff |-> angle_diff, divisors |-> <<>>, target |-> <<0, 0>>]

\* seek, attack, ambush and flank: the turn toward the target and the
\* shooting logic, gated on the angle_diff computed before the turn.
EnemyAim(e, target_angle, angle_diff, dt, r) ==
    LET speed == IF e.behavior_state = "attack"
                 THEN Round(160 * 12 * dt, 100000) ELSE Round(160 * dt, 10000)
        acc   == IF e.behavior_state = "seek" THEN 70
                 ELSE IF e.behavior_state = "attack" THEN 100
                 ELSE IF e.behavior_state = "ambush" THEN 90
                 ELSE 80
    IN  Decision(EnemyAimedFire(EnemySteer(e, angle_diff, speed, acc), angle_diff, r),
                 "aimed", target_angle, angle_diff)

\* evade: "Move away from player", "Occasionally fire backward while evading
\* if health is not too low"; r.evade is the draw.
EnemyEvade(e, target_angle, angle_diff, dt, r) ==
    Decision(EnemyShoot(EnemySteer(e, angle_diff, Round(160 * dt, 10000), 100),
                        e.health > 1 /\ e.shoot_cooldown <= 0 /\ r.evade < 3000,
                        13500),
             "evade", target_angle, angle_diff)

\* "Continue pursuing last known position for a longer time"; r.pursue is the draw.
EnemyPursue(e, target_angle, angle_diff, dt, r) ==
    Decision(EnemyShoot(EnemySteer(e, angle_diff, Round(160 * dt, 10000), 60),
                        /\ e.shoot_cooldown <= 0
                        /\ r.pursue < 1000
                        /\ Abs(angle_diff) < PursuitCone,
                        11700),
             "pursuit", target_angle, angle_diff)

\* "Smarter random wandering behavior when player is out of range for a while".
EnemyWander(e, dt, r) ==
    Decision(EnemyShoot([e EXCEPT
                           !.rotation = IF r.wander_turn < 300
                                        THEN @ + r.wander_angle ELSE @,
                           !.acceleration =
                               IF r.wander_thrust < 800 THEN r.wander_acc
                               ELSE Max(0, @ - Round(10 * dt, 10000))],
                        e.shoot_cooldown <= 0 /\ r.wander_fire < 200, 13500),
             "wander", 0, 0)

\* The angle from the enemy to a point.
AngleTo(e, x, y) == Atan2Deg(y - e.y, x - e.x)

\* The player in detection range (500): the last known position is set, then
\* the behaviour state decides.
EnemyInRange(e, tg, flee, dt, r) ==
    IF e.behavior_state \in {"seek", "attack", "ambush", "flank"}
    THEN [EnemyAim(e, AngleTo(e, tg[1], tg[2]),
                   AngleDiff(AngleTo(e, tg[1], tg[2]), e.rotation), dt, r)
             EXCEPT !.divisors = TargetDivisors(e, e.last_x, e.last_y),
                    !.target = tg]
    ELSE IF e.behavior_state = "evade"
    THEN EnemyEvade(e, flee, AngleDiff(flee, e.rotation), dt, r)
    ELSE [e |-> e, fire |-> FALSE, branch |-> "none", target_angle |-> 0,
          angle_diff |-> 0, divisors |-> <<>>, target |-> <<0, 0>>]

\* The player out of detection range: the pursuit of the last known position
\* for 7 s, then the wandering.
EnemyOutOfRange(e, dt, r) ==
    IF e.has_last_player_pos /\ e.last_detection_time < 70000
    THEN EnemyPursue(e, AngleTo(e, e.last_x, e.last_y),
                     AngleDiff(AngleTo(e, e.last_x, e.last_y), e.rotation), dt, r)
    ELSE EnemyWander(e, dt, r)

\* The behaviour part of Enemy.update ("Update the AI behavior based on current
\* state"): the enemy after it, whether update returns True there, the branch
\* taken, and the target_angle and angle_diff that branch computed.
EnemyDecide(e, dt, px, py, r) ==
    IF e.avoiding_asteroid
    THEN [e |-> [e EXCEPT !.rotation = @ + e.avoidance_direction
                                           * Round(160 * dt, 10000),
                          !.acceleration = 100],
          fire |-> FALSE, branch |-> "avoid", target_angle |-> 0, angle_diff |-> 0,
          divisors |-> <<>>, target |-> <<0, 0>>]
    ELSE IF Dist2(px, py, e.x, e.y) < 500 * 500
    THEN EnemyInRange([e EXCEPT !.has_last_player_pos = TRUE, !.last_x = px,
                                !.last_y = py, !.last_detection_time = 0],
                      EnemyTarget([e EXCEPT !.has_last_player_pos = TRUE,
                                            !.last_x = px, !.last_y = py], px, py),
                      PyMod(AngleTo(e, px, py) + 180, 360), dt, r)
    ELSE EnemyOutOfRange([e EXCEPT !.last_detection_time = @ + dt], dt, r)

\* "Apply acceleration to velocity": the velocity before the limit.
EnemyAccelerated(e, dt) ==
    <<e.vel_x + Round(Round(Cos(e.rotation) * 180 * e.acceleration, 1000) * dt,
                      1000000),
      e.vel_y + Round(Round(Sin(e.rotation) * 180 * e.acceleration, 1000) * dt,
                      1000000)>>

\* The divisors of the physics of Enemy.update.
EnemyPhysicsDivisors(e, dt) ==
    IF e.acceleration > 0
    THEN ClampDivisors(EnemyAccelerated(e, dt)[1], EnemyAccelerated(e, dt)[2], 280)
    ELSE <<>>

\* "Apply acceleration based on rotation" to the end of Enemy.update.
EnemyPhysics(e, dt, w, h) ==
    LET v   == IF e.acceleration > 0
               THEN ClampSpeed(EnemyAccelerated(e, dt)[1], EnemyAccelerated(e, dt)[2],
                               280)
               ELSE <<e.vel_x, e.vel_y>>
        vx  == Friction(v[1])
        vy  == Friction(v[2])
    IN  [e EXCEPT !.vel_x = vx, !.vel_y = vy,
                  !.x = Wrap(e.x + Step(vx, dt), 0, w),
                  !.y = Wrap(e.y + Step(vy, dt), 0, h),
                  !.shoot_cooldown = IF @ > 0 THEN @ - dt ELSE @]

\* A respawn that resets nothing but the position, the health and active.
EnemyRespawnStale(e, r) ==
    [e EXCEPT !.x = r.x, !.y = r.y, !.health = EnemyMaxHealth, !.active = TRUE]

\* "Make sure it's not too close to the player": the test that ends the loop
\* of respawn.
RespawnSafe(x, y, px, py) == Dist2(x, y, px, py) > 350 * 350

\* respawn(screen_width, screen_height, player_x, player_y): r.x, r.y is the
\* position its loop accepts (farther than 350 from the player).
EnemyRespawn(e, r) ==
    [e EXCEPT !.x = r.x, !.y = r.y, !.vel_x = 0, !.vel_y = 0,
              !.rotation = r.rotation, !.health = EnemyMaxHealth, !.active = TRUE,
              !.behavior_state = "seek", !.has_last_player_pos = FALSE,
              !.avoiding_asteroid = FALSE, !.avoidance_timer = 0,
              !.burst_fire_count = 0, !.burst_fire_cooldown = 0,
              !.burst_fire_delay = 0, !.flanking_direction = r.flank,
              !.prediction_factor = r.pred, !.strategy_change_timer = r.strat_timer,
              !.shot_accuracy = r.shot_accuracy]

\* The end of Enemy.update: "return True" leaves before the physics.
EnemyFinish(d, dt, w, h) ==
    IF d.fire THEN d
    ELSE [d EXCEPT !.e = EnemyPhysics(d.e, dt, w, h),
                   !.divisors = @ \o EnemyPhysicsDivisors(d.e, dt)]

\* The inactive enemy: "Update respawn timer when inactive".
EnemyWait(e, r) ==
    [e |-> IF e.respawn_timer <= 0 THEN EnemyRespawn(e, r) ELSE e,
     fire |-> FALSE, branch |-> "inactive", target_angle |-> 0, angle_diff |-> 0,
     divisors |-> <<>>, target |-> <<0, 0>>]

\* Enemy.update(dt, player_x, player_y, screen_width, screen_height, sound_manager,
\* asteroids): the enemy after the call and the value returned.
EnemyUpdate(e, dt, px, py, w, h, list, r) ==
    IF ~e.active
    THEN EnemyWait([e EXCEPT !.respawn_timer = @ - dt], r)
    ELSE EnemyFinish(
             EnemyDecide(
                 EnemyBehaviorTimer(
                     EnemyDetectAsteroid(EnemyTimers(EnemyStrategy(e, dt, r), dt),
                                         dt, list),
                     dt, px, py, r),
                 dt, px, py, r),
             dt, w, h)

\* take_damage() reporting the destruction without starting the respawn timer.
EnemyTakeDamageNoTimer(e, r) ==
    IF e.health - 1 <= 0
    THEN [e |-> [e EXCEPT !.health = @ - 1, !.active = FALSE], destroyed |-> TRUE]
    ELSE [e |-> [e EXCEPT !.health = @ - 1], destroyed |-> FALSE]

\* take_damage() raising the accuracy without the limit of 0.99.
EnemyTakeDamageUnclamped(e, r) ==
    LET h == e.health - 1
    IN  IF h <= 0
        THEN [e |-> [e EXCEPT !.health = h, !.active = FALSE,
                              !.respawn_timer = RespawnTime],
              destroyed |-> TRUE]
        ELSE [e |-> IF r.react < 5000
                    THEN [e EXCEPT !.health = h, !.behavior_state = "attack",
                                   !.shot_accuracy = @ + 500]
                    ELSE [e EXCEPT !.health = h, !.behavior_state = "evade"],
              destroyed |-> FALSE]

\* take_damage(); r.react is its draw of random().
EnemyTakeDamage(e, r) ==
    LET h == e.health - 1
    IN  IF h <= 0
        THEN [e |-> [e EXCEPT !.health = h, !.active = FALSE,
                              !.respawn_timer = RespawnTime],
              destroyed |-> TRUE]
        ELSE [e |-> IF r.react < 5000
                    THEN [e EXCEPT !.health = h, !.behavior_state = "attack",
                                   !.shot_accuracy = Min(9900, @ + 500)]
                    ELSE [e EXCEPT !.health = h, !.behavior_state = "evade"],
              destroyed |-> FALSE]

----------------------------------------------------------------------------
(* GameplayState: the consequences of collisions. *)

\* player_destroyed() without the invulnerability of the respawn.
PlayerDestroyedExposed(p, g) ==
    IF p.lives - 1 <= 0
    THEN [p |-> [p EXCEPT !.lives = @ - 1], g |-> [g EXCEPT !.game_over = TRUE]]
    ELSE [p |-> [p EXCEPT !.lives = @ - 1,
                          !.x = SCREEN_WIDTH \div 2, !.y = SCREEN_HEIGHT \div 2,
                          !.vel_x = 0, !.vel_y = 0, !.rotation = 0],
          g |-> g]

\* player_destroyed(): lives -= 1, then game over or the respawn at the centre.
PlayerDestroyed(p, g) ==
    LET lives == p.lives - 1
    IN  IF lives <= 0
        THEN [p |-> [p EXCEPT !.lives = lives],
              g |-> [g EXCEPT !.game_over = TRUE]]
        ELSE [p |-> [p EXCEPT !.lives = lives,
                              !.x = SCREEN_WIDTH \div 2, !.y = SCREEN_HEIGHT \div 2,
                              !.vel_x = 0, !.vel_y = 0, !.rotation = 0,
                              !.invulnerable = TRUE,
                              !.invulnerable_timer = DeathInvulnerability],
              g |-> g]

\* A collection that raises the power-up's flag and leaves its timer alone.
HandlePowerupFlagOnly(p, type) ==
    IF type = "shield" THEN [p EXCEPT !.invulnerable = TRUE]
    ELSE IF type = "rapidfire" THEN [p EXCEPT !.rapid_fire = TRUE]
    ELSE IF type = "extralife" THEN [p EXCEPT !.lives = @ + 1]
    ELSE IF type = "timeslow" THEN [p EXCEPT !.time_slow = TRUE]
    ELSE IF type = "tripleshot" THEN [p EXCEPT !.triple_shot = TRUE]
    ELSE IF type = "magnet" THEN [p EXCEPT !.magnet = TRUE]
    ELSE p

\* handle_powerup_collected(powerup): "Apply the powerup effect".
HandlePowerupCollected(p, type) ==
    IF type = "shield"
    THEN [p EXCEPT !.invulnerable = TRUE, !.invulnerable_timer = 150000]
    ELSE IF type = "rapidfire"
    THEN [p EXCEPT !.rapid_fire = TRUE, !.rapid_fire_timer = 150000]
    ELSE IF type = "extralife"
    THEN [p EXCEPT !.lives = @ + 1]
    ELSE IF type = "timeslow"
    THEN [p EXCEPT !.time_slow = TRUE, !.time_slow_timer = 100000]
    ELSE IF type = "tripleshot"
    THEN [p EXCEPT !.triple_shot = TRUE, !.triple_shot_timer = 150000]
    ELSE IF type = "magnet"
    THEN [p EXCEPT !.magnet = TRUE, !.magnet_timer = 180000]
    ELSE p

\* A score by size alone, without "Extra score for special asteroid types".
ScoreBySize(a) ==
    IF a.size = "large" THEN 100 ELSE IF a.size = "medium" THEN 150 ELSE 200

\* "Add score based on size and type".
AsteroidScore(a) ==
    (IF a.size = "large" THEN 100 ELSE IF a.size = "medium" THEN 150 ELSE 200)
    + (IF a.type = "mineral" THEN 50 ELSE IF a.type = "unstable" THEN 75 ELSE 0)

\* "Break larger asteroids into smaller ones": the two children of a destroyed
\* asteroid, r.child1 and r.child2 the velocities drawn as a percentage of the
\* range (50 for the children of a large asteroid, 75 of a medium one).
AsteroidChildren(a, id, r) ==
    LET range == IF a.size = "large" THEN 50 ELSE 75
        size  == IF a.size = "large" THEN "medium" ELSE "small"
        child(k, c) == Asteroid(id + k, a.x, a.y, Round(c[1] * range, 100),
                                Round(c[2] * range, 100), size, a.type)
    IN  IF a.size \in {"large", "medium"}
        THEN <<child(0, r.child1), child(1, r.child2)>>
        ELSE <<>>

\* Whether the blast of a destroyed unstable asteroid a reaches b.
InBlast(a, b) == Dist2(b.x, b.y, a.x, a.y) < ExplosionRadius * ExplosionRadius

\* "Special effects based on asteroid type": the collection after the blast of
\* the destroyed asteroid a, every asteroid in reach removed.
UnstableBlast(a, list) ==
    IF a.type = "unstable"
    THEN SelectSeq(list, LAMBDA b : ~InBlast(a, b))
    ELSE list

\* "Chance to spawn a powerup": r.drop is "" (no drop, 80%) or the type drawn,
\* r.drop_vel the velocity drawn.
PowerupDrop(a, id, r) ==
    IF r.drop = "" THEN <<>>
    ELSE <<Powerup(id, a.x, a.y, r.drop_vel[1], r.drop_vel[2], r.drop)>>

\* handle_asteroid_hit(asteroid, projectile): the asteroid and powerup
\* collections, the score and the error after it.  list.remove raises
\* ValueError when the asteroid is not in the collection.
HandleAsteroidHit(list, pows, g, a, id, r) ==
    LET kids  == AsteroidChildren(a, id, r)
        split == ListRemove(list, a.id) \o kids
        drop  == PowerupDrop(a, id + 2, r)
    IN  IF ~InList(list, a.id)
        THEN [asteroids |-> list, powerups |-> pows,
              g |-> [g EXCEPT !.error = "ValueError"]]
        ELSE [asteroids |-> UnstableBlast(a, split),
              powerups  |-> pows \o drop,
              g         |-> [g EXCEPT !.score = @ + AsteroidScore(a)]]

----------------------------------------------------------------------------
(* The entities' update methods and the wraps GameplayState.update applies. *)

\* "Screen wrapping" of Asteroid.update and Powerup.update: past the edge by
\* more than the radius (in tenths) to the same distance past the other edge.
WrapRadius(c, radius, hi) ==
    IF 10 * c < -radius THEN hi + Round(radius, 10)
    ELSE IF 10 * c > 10 * hi + radius THEN -Round(radius, 10)
    ELSE c

\* Asteroid.update(dt); the surface is the game's window.
AsteroidUpdate(a, dt) ==
    [a EXCEPT !.x = WrapRadius(a.x + Step(a.vel_x, dt), a.radius, SCREEN_WIDTH),
              !.y = WrapRadius(a.y + Step(a.vel_y, dt), a.radius, SCREEN_HEIGHT)]

\* "Wrap asteroid position around screen edges".
WrapAsteroid(a) ==
    [a EXCEPT !.x = Wrap(a.x, -50, SCREEN_WIDTH + 50),
              !.y = Wrap(a.y, -50, SCREEN_HEIGHT + 50)]

\* Projectile.update(dt).
ProjectileUpdate(p, dt) ==
    [p EXCEPT !.x = p.x + Step(p.vel_x, dt), !.y = p.y + Step(p.vel_y, dt),
              !.life = p.life - dt]

\* "Wrap projectiles around screen edges instead of removing them".
WrapProjectile(p) ==
    [p EXCEPT !.x = Wrap(p.x, 0, SCREEN_WIDTH), !.y = Wrap(p.y, 0, SCREEN_HEIGHT)]

\* Powerup.update(dt), called without a screen size: the defaults 800 x 600.
PowerupUpdate(p, dt) ==
    [p EXCEPT !.x = WrapRadius(p.x + Step(p.vel_x, dt), p.radius, 800),
              !.y = WrapRadius(p.y + Step(p.vel_y, dt), p.radius, 600),
              !.vel_x = Round(p.vel_x * 995, 1000),
              !.vel_y = Round(p.vel_y * 995, 1000),
              !.life = p.life - dt]

\* "Wrap powerup around screen edges".
WrapPowerup(p) ==
    [p EXCEPT !.x = Wrap(p.x, -20, SCREEN_WIDTH + 20),
              !.y = Wrap(p.y, -20, SCREEN_HEIGHT + 20)]

\* The test of the origin without "or angle_diff > math.pi * 2 - 0.5".
IsPlayerShotBelow(p, proj) ==
    Abs(p.rotation - Atan2Deg(proj.vel_y, proj.vel_x)) * 31416 < 900000

\* "Check if the projectile originated from the player": the angle between the
\* player's rotation and the projectile's velocity is below 0.5 rad or above
\* 2 pi - 0.5 rad (pi as 3.1416, the angles in degrees).
IsPlayerShot(p, proj) ==
    LET d == Abs(p.rotation - Atan2Deg(proj.vel_y, proj.vel_x))
    IN  d * 31416 < 900000 \/ d * 31416 > 10409760

\* "Handle enemy shooting": the projectile of an enemy that fires.
EnemyProjectile(e, id) ==
    Projectile(id, e.x + Round(Cos(e.rotation) * 25, 1000),
               e.y + Round(Sin(e.rotation) * 25, 1000),
               Round(Cos(e.rotation) * 300, 1000), Round(Sin(e.rotation) * 300, 1000))

\* "Check collision with player" of the asteroid and the projectile loops.
PlayerHit(p, other) == ~p.invulnerable /\ CheckCollision(p, other)

\* The collision with the enemy without the test of enemy.active.
EnemyTouched(e, other) == CheckCollision(e, other)

\* "Check collision with enemy ship" of the asteroid and the projectile loops.
EnemyHit(e, other) == e.active /\ CheckCollision(e, other)

\* The inner loop without its break: every asteroid of the copy the projectile
\* touches is handed to handle_asteroid_hit.
RECURSIVE AsteroidsTouched(_, _, _)
AsteroidsTouched(proj, copy, i) ==
    IF i > Len(copy) THEN <<>>
    ELSE IF CheckCollision(proj, copy[i])
    THEN <<copy[i]>> \o AsteroidsTouched(proj, copy, i + 1)
    ELSE AsteroidsTouched(proj, copy, i + 1)

\* "Check collision with asteroids": the asteroids of the loop's copy that the
\* inner loop hands to handle_asteroid_hit, the first one the projectile
\* touches, after which the loop breaks.
RECURSIVE AsteroidsHit(_, _, _)
AsteroidsHit(proj, copy, i) ==
    IF i > Len(copy) THEN <<>>
    ELSE IF CheckCollision(proj, copy[i]) THEN <<copy[i]>>
    ELSE AsteroidsHit(proj, copy, i + 1)

\* The calls of check_collision the inner loop makes: one for every asteroid
\* of the copy up to the first one the projectile touches.
RECURSIVE AsteroidChecks(_, _, _)
AsteroidChecks(proj, copy, i) ==
    IF i > Len(copy) THEN <<>>
    ELSE IF CheckCollision(proj, copy[i]) THEN <<"ProjectileAsteroid">>
    ELSE <<"ProjectileAsteroid">> \o AsteroidChecks(proj, copy, i + 1)

\* spawn_random_powerup(): r.spawn is the position its loop accepts (farther
\* than 150 from the player), the type and the velocity drawn.
SpawnRandomPowerup(id, r) ==
    Powerup(id, r.spawn.x, r.spawn.y, r.spawn.vel_x, r.spawn.vel_y, r.spawn.type)

\* A placement that takes any position.
SafeAnywhere(x, y, p) == TRUE

\* "Make sure it's not too close to the player": the position (x, y) is
\* farther than 200 from the player.
SafeDistance(x, y, p) == Dist2(x, y, p.x, p.y) > 200 * 200

\* One asteroid of a level: d the position the loop accepted, the size, the
\* type and the draws u, v of uniform(-1, 1) in tenths.
LevelAsteroid(id, d, level) ==
    Asteroid(id, d.x, d.y, Round(d.u * (10 + level), 10),
             Round(d.v * (10 + level), 10), d.size, d.type)

\* A start_new_level that adds no asteroid.
StartNewLevelEmpty(g, id, r) ==
    [g |-> [g EXCEPT !.level_cleared = FALSE, !.level_start_timer = 20000],
     new |-> <<>>]

\* start_new_level(): the asteroids of the new level, r.layout the positions
\* its loops accept (farther than 200 from the player), the sizes, the types
\* and the draws of uniform(-1, 1).
StartNewLevel(g, id, r) ==
    [g |-> [g EXCEPT !.level_cleared = FALSE, !.level_start_timer = 20000],
     new |-> [k \in 1..(3 + g.level \div 2) |->
                 LevelAsteroid(id + k - 1, r.layout[k], g.level)]]

\* The largest r in lo .. hi - 1 with r * r <= n, for lo * lo <= n < hi * hi.
RECURSIVE SqrtBetween(_, _, _)
SqrtBetween(n, lo, hi) ==
    IF hi - lo <= 1 THEN lo
    ELSE LET mid == (lo + hi) \div 2
         IN  IF mid * mid <= n THEN SqrtBetween(n, mid, hi)
             ELSE SqrtBetween(n, lo, mid)

\* math.sqrt(dx * dx + dy * dy) in hundredths of a pixel, d2 the sum of squares.
Distance100(d2) == SqrtBetween(10000 * d2, 0, 40000)

\* A pull of 12.0 at every distance.
MagnetForceFlat(p, d2) == 120000

\* "Calculate attraction force (stronger when closer)":
\* (1.0 - distance / magnet_radius) * 12.0, in ten-thousandths.
MagnetForce(p, d2) ==
    Round(1200 * (100 * p.magnet_radius - Distance100(d2)), p.magnet_radius)

\* (dx / distance) * force, to the whole pixel per second.
MagnetImpulse(dx, force, d2) == Round(dx * force, 100 * Distance100(d2))

\* "Apply magnet effect to powerups": one powerup after the pull.  The
\* division by the distance raises ZeroDivisionError at distance 0.
MagnetPull(p, pw) ==
    LET dx == p.x - pw.x
        dy == p.y - pw.y
        d2 == dx * dx + dy * dy
    IN  IF d2 < p.magnet_radius * p.magnet_radius /\ d2 > 0
        THEN [pw EXCEPT !.vel_x = @ + MagnetImpulse(dx, MagnetForce(p, d2), d2),
                        !.vel_y = @ + MagnetImpulse(dy, MagnetForce(p, d2), d2)]
        ELSE pw

\* The divisors of the magnet loop: the distance (in hundredths) of every
\* powerup closer than magnet_radius.
MagnetDivisors(p, pows) ==
    LET near == SelectSeq(pows, LAMBDA pw :
                    Dist2(p.x, p.y, pw.x, pw.y) < p.magnet_radius * p.magnet_radius)
    IN  [i \in 1..Len(near) |-> Distance100(Dist2(p.x, p.y, near[i].x, near[i].y))]

\* Whether the magnet loop divides by zero: a powerup at the player's position.
MagnetDivides(p, pows) ==
    p.magnet /\ \E i \in 1..Len(pows) : pows[i].x = p.x /\ pows[i].y = p.y

----------------------------------------------------------------------------
(* GameplayState.update(dt), one action per section of it: the head (timers, *)
(* player, shooting), the enemy, the asteroid loop, one iteration of the     *)
(* projectile loop, and the powerups with the level check and the magnet.   *)
(* pc is the section the call has reached, "idle" between two calls.        *)

(* GameState: the state manager.  A state object is a record: its class    *)
(* (kind), its identity, and for a MenuState resume_available,             *)
(* selected_option and showing_credits.                                     *)

\* current_state before any state is set.
NoState ==
    [kind |-> "None", id |-> 0, resume_available |-> FALSE, selected_option |-> 0,
     showing_credits |-> FALSE]

\* The GameplayState object of identity id; its attributes are the variables
\* player, enemy, asteroids, projectiles, powerups and game.
GameplayObject(id) == [NoState EXCEPT !.kind = "GameplayState", !.id = id]

\* MenuState(game_state, resume_available).
MenuState(resume_available) ==
    [NoState EXCEPT !.kind = "MenuState", !.resume_available = resume_available]

\* GameState().
GameState ==
    [current_state |-> NoState, states_stack |-> <<>>,
     paused_gameplay_state |-> NoState]

\* push_state(new_state).
PushState(gs, new_state) ==
    [gs EXCEPT !.states_stack = Append(@, new_state), !.current_state = new_state]

\* A change_state that pushes without clearing the stack.
ChangeStateKeeping(gs, new_state) == PushState(gs, new_state)

\* change_state(new_state): "clearing the state stack".
ChangeState(gs, new_state) ==
    PushState([gs EXCEPT !.states_stack = <<>>], new_state)

\* pop_state(): the GameState after it and the value returned.
PopState(gs) ==
    IF Len(gs.states_stack) > 1
    THEN [gs |-> [gs EXCEPT
                    !.states_stack = SubSeq(@, 1, Len(@) - 1),
                    !.current_state = gs.states_stack[Len(gs.states_stack) - 1]],
          ret |-> TRUE]
    ELSE [gs |-> gs, ret |-> FALSE]

\* The GameState while the first GameplayState runs.
Playing == ChangeState(GameState, GameplayObject(1))

----------------------------------------------------------------------------
\* What the last step did, kept for the properties; no step reads it.
\* deaths, collected, slow (time_slow when the tick began), start (the
\* asteroids, projectiles and powerups when the tick began) and gone (the identities
\* removed from a collection earlier in the tick) run over the whole tick,
\* the rest over one step.  checks is the log of the calls of check_collision
\* in the tick, each under the name of its pair of categories, with the
\* level-clear check; divisors the divisors of the divisions the step made, dt
\* the dt Enemy.update was called with.
\* angle_diff is the angle the enemy's branch computed, off_player the angle
\* between the enemy's heading and the player when update returned.
\* target is the target point of seek, attack, ambush and flank; key is the
\* key of the event handled and whether it went down; pre_game_state is the
\* GameState before the step, arg the state passed to change_state or
\* push_state and ret the value pop_state returned; paused is the gameplay state as it was when ESC was
\* pressed last.
\* clock is the time that passed in the calls of Enemy.update before the last
\* one and shots the log of the calls that returned True: the clock of each,
\* the firing mode and the branch.
Observe(step) ==
    [step |-> step, pre_id |-> nextId, pre_score |-> game.score,
     pre_level |-> game.level, pre_game |-> game, key |-> <<"", FALSE>>,
     pre_game_state |-> game_state, ret |-> FALSE, paused |-> obs.paused,
     arg |-> NoState,
     pre_player |-> player,
     pre_asteroids |-> asteroids, pre_projectiles |-> projectiles,
     pre_powerups |-> powerups,
     pre_enemy |-> enemy,
     hits |-> <<>>, fire |-> FALSE, branch |-> "", angle_diff |-> 0,
     target |-> <<0, 0>>,
     off_player |-> 0, damage |-> 0, kill |-> "", visited |-> 0,
     collides |-> <<FALSE, FALSE>>, draw |-> [x |-> 0, y |-> 0],
     deaths |-> obs.deaths, collected |-> obs.collected, slow |-> obs.slow,
     start |-> obs.start, checks |-> obs.checks, divisors |-> <<>>, dt |-> 0,
     clock |-> obs.clock, shots |-> obs.shots,
     gone |-> obs.gone \cup (IdSet(obs.pre_asteroids \o obs.pre_projectiles
                                    \o obs.pre_powerups)
                             \ IdSet(asteroids \o projectiles \o powerups))]

\* Before the first step: nothing observed.
Unobserved ==
    [step |-> "init", pre_id |-> 100, pre_score |-> 0, pre_level |-> 1,
     pre_game |-> [score |-> 0, level |-> 1, game_over |-> FALSE,
                   level_cleared |-> FALSE, level_start_timer |-> 0,
                   powerup_spawn_timer |-> 0, effective_dt |-> 0, dt |-> 0,
                   error |-> "", id |-> 1],
     key |-> <<"", FALSE>>,
     pre_game_state |-> GameState, ret |-> FALSE, arg |-> NoState,
     paused |-> [player |-> Player(0, 0),
                 enemy |-> Enemy(0, 0, [flank |-> 1, shot_accuracy |-> 9000,
                                        strat_timer |-> 80000]),
                 asteroids |-> <<>>, projectiles |-> <<>>, powerups |-> <<>>,
                 game |-> [score |-> 0, level |-> 1, game_over |-> FALSE,
                           level_cleared |-> FALSE, level_start_timer |-> 0,
                           powerup_spawn_timer |-> 0, effective_dt |-> 0,
                           dt |-> 0, error |-> "", id |-> 0]],
     pre_player |-> Player(0, 0),
     pre_asteroids |-> <<>>, pre_projectiles |-> <<>>, pre_powerups |-> <<>>,
     pre_enemy |-> Enemy(0, 0, [flank |-> 1, shot_accuracy |-> 9000,
                                strat_timer |-> 80000]),
     hits |-> <<>>, fire |-> FALSE, branch |-> "", angle_diff |-> 0,
     target |-> <<0, 0>>,
     off_player |-> 0, damage |-> 0, kill |-> "", visited |-> 0,
     collides |-> <<FALSE, FALSE>>, draw |-> [x |-> 0, y |-> 0],
     deaths |-> <<>>, collected |-> <<>>, slow |-> FALSE,
     start |-> [asteroids |-> <<>>, projectiles |-> <<>>, powerups |-> <<>>],
     checks |-> <<>>, divisors |-> <<>>, dt |-> 0, clock |-> 0, shots |-> <<>>,
     gone |-> {}]

\* A delta time for the other entities that time slow does not scale.
EffectiveDtUnscaled(p) == game.dt

\* "Apply time slow effect if active": dt * 0.167.
EffectiveDt(p) == IF p.time_slow THEN Round(game.dt * 167, 1000) ELSE game.dt

\* The positions and kinds spawn_random_powerup may draw.
SpawnDraws ==
    {[spawn |-> [x |-> 200, y |-> 600, vel_x |-> 30, vel_y |-> 0, type |-> t],
      spawn_timer |-> 100] : t \in {"shield", "magnet"}}

\* The head of update: the level start timer, the powerup spawn timer,
\* player.update, the power-up timers, the wrap and the shooting.  When the
\* game is over update returns at once.
UpdateBegin ==
    /\ pc = "idle" /\ game.error = "" /\ ticks < MaxTicks
    /\ game_state.current_state = GameplayObject(game.id)
    /\ ticks' = ticks + 1
    /\ IF game.game_over
       THEN /\ obs' = [Observe("game_over") EXCEPT !.deaths = <<>>, !.collected = <<>>,
                                                  !.slow = player.time_slow,
                                                  !.start = [asteroids |-> asteroids,
                                                             projectiles |-> projectiles,
                                                             powerups |-> powerups],
                                                  !.checks = <<>>, !.gone = {}]
            /\ UNCHANGED <<player, enemy, asteroids, projectiles, powerups, game,
                           pc, iter, nextId, events>>
       ELSE \E r \in SpawnDraws :
            LET lst   == IF game.level_start_timer > 0
                         THEN game.level_start_timer - game.dt
                         ELSE game.level_start_timer
                pst   == IF lst <= 0 THEN game.powerup_spawn_timer - game.dt
                         ELSE game.powerup_spawn_timer
                spawn == lst <= 0 /\ pst <= 0
                base  == Max(150000 - 5000 * game.level, 50000)
                p1    == WrapPlayer(UpdatePowerupTimers(PlayerUpdate(player, game.dt),
                                                        game.dt))
                sh    == PlayerShoot(p1, nextId + 1)
            IN  /\ spawn => Dist2(r.spawn.x, r.spawn.y, player.x, player.y) > 150 * 150
                /\ game' = [game EXCEPT
                              !.effective_dt = EffectiveDt(player),
                              !.level_start_timer = lst,
                              !.powerup_spawn_timer =
                                  IF spawn THEN Round(base * r.spawn_timer, 100)
                                  ELSE pst]
                /\ powerups' = IF spawn
                               THEN Append(powerups, SpawnRandomPowerup(nextId, r))
                               ELSE powerups
                /\ player' = sh.p
                /\ projectiles' = projectiles \o sh.new
                /\ nextId' = nextId + 4
                /\ pc' = "enemy"
                /\ obs' = [Observe("begin") EXCEPT !.deaths = <<>>, !.collected = <<>>,
                                                   !.divisors = PlayerDivisors(player, game.dt),
                                                   !.slow = player.time_slow,
                                                  !.start = [asteroids |-> asteroids,
                                                             projectiles |-> projectiles,
                                                             powerups |-> powerups],
                                                   !.checks = <<>>, !.gone = {}]
                /\ UNCHANGED <<enemy, asteroids, iter, events>>
    /\ UNCHANGED game_state

\* The draws of Enemy.update and take_damage in the game: one where every
\* chance falls the enemy's way (it fires whenever it may) and one where none does.
EnemyDraws ==
    {[flank |-> 1, pred |-> 80, aim |-> 5000, strat_timer |-> 80000,
      shot_accuracy |-> 9000, beh |-> b, beh_timer |-> 20000, acc |-> c,
      evade |-> c, pursue |-> c, wander_turn |-> c, wander_angle |-> 40,
      wander_thrust |-> c, wander_acc |-> 50, wander_fire |-> c,
      x |-> IF player.x > SCREEN_WIDTH \div 2 THEN 100 ELSE 1100, y |-> 650,
      rotation |-> 180, react |-> c] :
        b \in {2000, 9500}, c \in {0, 9999}}

\* "Update enemy" after the call of Enemy.update, u what the call returned
\* and left: the projectile of an enemy that fires and the collision between
\* the player and the enemy, both for an enemy that was active only.
AfterEnemyUpdate(u) ==
    LET hit == enemy.active /\ PlayerHit(player, u.e)
        d   == IF hit THEN PlayerDestroyed(player, game)
               ELSE [p |-> player, g |-> game]
    IN  /\ enemy' = u.e
        /\ projectiles' = IF enemy.active /\ u.fire
                          THEN Append(projectiles, EnemyProjectile(u.e, nextId))
                          ELSE projectiles
        /\ player' = d.p
        /\ game' = d.g
        /\ nextId' = nextId + 1
        /\ obs' = [Observe("enemy") EXCEPT
                     !.fire = u.fire, !.branch = u.branch,
                     !.angle_diff = u.angle_diff,
                 !.target = u.target, !.divisors = u.divisors,
                     !.dt = game.effective_dt,
                     !.off_player = AngleDiff(AngleTo(u.e, player.x, player.y),
                                              u.e.rotation),
                     !.deaths = IF hit
                                THEN Append(@, [cause |-> "enemy",
                                                lives |-> player.lives])
                                ELSE @,
                     !.checks = IF enemy.active /\ ~player.invulnerable
                                THEN Append(@, "PlayerEnemy") ELSE @]

\* "Update enemy": an active enemy is updated with the asteroids in view, an
\* inactive one only runs its respawn timer.
UpdateEnemy ==
    /\ pc = "enemy" /\ game.error = ""
    /\ \E r \in EnemyDraws :
          /\ RespawnSafe(r.x, r.y, player.x, player.y)
          /\ AfterEnemyUpdate(EnemyUpdate(enemy, game.effective_dt, player.x,
                                          player.y, SCREEN_WIDTH, SCREEN_HEIGHT,
                                          IF enemy.active THEN asteroids ELSE <<>>,
                                          r))
    /\ pc' = "asteroids"
    /\ UNCHANGED <<asteroids, powerups, iter, ticks, events>>
    /\ UNCHANGED game_state

\* "Update asteroids": the loop from its i-th asteroid on.  st holds the
\* asteroids, the player p, the enemy e and the game g, with the log of the
\* player's deaths, of the calls of take_damage and of the enemy's destruction.
\* A collision with the player or with the enemy ends the loop.  checks logs
\* the calls of check_collision: with the player unless it is invulnerable,
\* then with the enemy if it is active.
RECURSIVE AsteroidLoop(_, _, _)
AsteroidLoop(st, i, r) ==
    IF i > Len(st.asteroids) THEN st
    ELSE LET a    == WrapAsteroid(AsteroidUpdate(st.asteroids[i], st.g.effective_dt))
             list == [st.asteroids EXCEPT ![i] = a]
             c1   == IF st.p.invulnerable THEN st.checks
                     ELSE Append(st.checks, "PlayerAsteroid")
             c2   == IF st.e.active THEN Append(c1, "EnemyAsteroid") ELSE c1
         IN  IF PlayerHit(st.p, a)
             THEN LET d == PlayerDestroyed(st.p, st.g)
                  IN  [st EXCEPT !.asteroids = list, !.p = d.p, !.g = d.g,
                                 !.deaths = Append(@, [cause |-> "asteroid",
                                                       lives |-> st.p.lives]),
                                 !.checks = c1]
             ELSE IF EnemyHit(st.e, a)
             THEN LET t == EnemyTakeDamage(st.e, r)
                  IN  [st EXCEPT !.asteroids = list, !.e = t.e,
                                 !.g = [st.g EXCEPT !.score =
                                          IF t.destroyed
                                          THEN @ + ScoreEnemyByAsteroid ELSE @],
                                 !.damage = @ + 1,
                                 !.kill = IF t.destroyed THEN "asteroid" ELSE @,
                                 !.checks = c2]
             ELSE AsteroidLoop([st EXCEPT !.asteroids = list, !.checks = c2],
                               i + 1, r)

\* The draws of take_damage.
Reactions == {[react |-> 2500], [react |-> 7500]}

\* The ids of a list, in its order: the copy a loop iterates over.
Ids(list) == [i \in 1..Len(list) |-> list[i].id]

UpdateAsteroids ==
    /\ pc = "asteroids" /\ game.error = ""
    /\ \E r \in Reactions :
       LET st == AsteroidLoop([asteroids |-> asteroids, p |-> player, e |-> enemy,
                               g |-> game, deaths |-> obs.deaths, damage |-> 0,
                               kill |-> "", checks |-> obs.checks], 1, r)
       IN  /\ asteroids' = st.asteroids
           /\ player' = st.p
           /\ enemy' = st.e
           /\ game' = st.g
           /\ obs' = [Observe("asteroids") EXCEPT
                        !.deaths = st.deaths, !.damage = st.damage, !.kill = st.kill,
                        !.checks = st.checks]
    /\ iter' = Ids(projectiles)
    /\ pc' = IF projectiles = <<>> THEN "powerups" ELSE "projectiles"
    /\ UNCHANGED <<projectiles, powerups, nextId, ticks, events>>
    /\ UNCHANGED game_state

\* The draws of handle_asteroid_hit: the children's velocities as a percentage
\* of their range, the powerup dropped ("": none) and its velocity, and the
\* draw of take_damage.
HitDraws ==
    {[child1 |-> <<-100, 0>>, child2 |-> <<100, 0>>, drop |-> d,
      drop_vel |-> <<0, 0>>, react |-> 2500] : d \in {"", "extralife"}}

\* Calls of handle_asteroid_hit that hand every asteroid over twice.
RECURSIVE HitAllTwice(_, _, _, _)
HitAllTwice(st, hits, i, r) ==
    IF i > 2 * Len(hits) \/ st.g.error # "" THEN st
    ELSE LET h == HandleAsteroidHit(st.asteroids, st.powerups, st.g,
                                    hits[(i + 1) \div 2], st.id, r)
         IN  HitAllTwice([asteroids |-> h.asteroids, powerups |-> h.powerups,
                          g |-> h.g, id |-> st.id + 3], hits, i + 1, r)

\* The calls of handle_asteroid_hit for the asteroids hits[i..], in order.
RECURSIVE HitAll(_, _, _, _)
HitAll(st, hits, i, r) ==
    IF i > Len(hits) \/ st.g.error # "" THEN st
    ELSE LET h == HandleAsteroidHit(st.asteroids, st.powerups, st.g, hits[i],
                                    st.id, r)
         IN  HitAll([asteroids |-> h.asteroids, powerups |-> h.powerups,
                     g |-> h.g, id |-> st.id + 3], hits, i + 1, r)

\* "Update projectiles": one iteration of the loop over the copy of the
\* projectiles, iter the ids still to visit.  An expired projectile is removed;
\* a collision with the player or with the enemy ends the loop; a collision
\* with an asteroid destroys the asteroid and removes the projectile.
UpdateProjectile ==
    /\ pc = "projectiles" /\ game.error = "" /\ iter # <<>>
    /\ \E r \in HitDraws :
       LET proj == WrapProjectile(ProjectileUpdate(ById(projectiles, Head(iter)),
                                                   game.effective_dt))
           moved == Replace(projectiles, proj)
           gone  == ListRemove(projectiles, proj.id)
           rest(stop) == IF stop \/ Tail(iter) = <<>> THEN "powerups"
                         ELSE "projectiles"
           c1    == IF player.invulnerable THEN obs.checks
                    ELSE Append(obs.checks, "ProjectilePlayer")
           c2    == IF enemy.active THEN Append(c1, "ProjectileEnemy") ELSE c1
       IN  IF proj.life <= 0
           THEN /\ projectiles' = gone
                /\ iter' = Tail(iter)
                /\ pc' = rest(FALSE)
                /\ obs' = [Observe("projectile") EXCEPT !.visited = proj.id]
                /\ UNCHANGED <<player, enemy, asteroids, powerups, game, nextId>>
           ELSE IF PlayerHit(player, proj)
           THEN LET d == PlayerDestroyed(player, game)
                IN  /\ player' = d.p
                    /\ game' = d.g
                    /\ projectiles' = gone
                    /\ iter' = <<>>
                    /\ pc' = rest(TRUE)
                    /\ obs' = [Observe("projectile") EXCEPT
                                 !.visited = proj.id, !.checks = c1,
                                 !.deaths = Append(@, [cause |-> "projectile",
                                                       lives |-> player.lives])]
                    /\ UNCHANGED <<enemy, asteroids, powerups, nextId>>
           ELSE IF EnemyHit(enemy, proj)
           THEN LET mine == IsPlayerShot(player, proj)
                    t    == IF mine THEN EnemyTakeDamage(enemy, r)
                            ELSE [e |-> enemy, destroyed |-> FALSE]
                IN  /\ enemy' = t.e
                    /\ game' = [game EXCEPT !.score =
                                  IF t.destroyed THEN @ + ScoreEnemyByPlayer ELSE @]
                    /\ projectiles' = gone
                    /\ iter' = <<>>
                    /\ pc' = rest(TRUE)
                    /\ obs' = [Observe("projectile") EXCEPT
                                 !.visited = proj.id, !.checks = c2,
                                 !.damage = IF mine THEN 1 ELSE 0,
                                 !.kill = IF t.destroyed THEN "projectile" ELSE ""]
                    /\ UNCHANGED <<player, asteroids, powerups, nextId>>
           ELSE LET hits == AsteroidsHit(proj, asteroids, 1)
                    st   == HitAll([asteroids |-> asteroids, powerups |-> powerups,
                                    g |-> game, id |-> nextId], hits, 1, r)
                IN  /\ asteroids' = st.asteroids
                    /\ powerups' = st.powerups
                    /\ game' = st.g
                    /\ nextId' = st.id
                    /\ projectiles' = IF hits = <<>> THEN moved ELSE gone
                    /\ iter' = Tail(iter)
                    /\ pc' = rest(FALSE)
                    /\ obs' = [Observe("projectile") EXCEPT
                                 !.hits = hits, !.visited = proj.id,
                                 !.checks = c2 \o AsteroidChecks(proj, asteroids, 1)]
                    /\ UNCHANGED <<player, enemy>>
    /\ UNCHANGED <<ticks, events>>
    /\ UNCHANGED game_state

\* The powerup loop without "Remove if expired".
RECURSIVE PowerupLoopNoExpiry(_, _, _)
PowerupLoopNoExpiry(st, copy, i) ==
    IF i > Len(copy) THEN st
    ELSE LET pw == WrapPowerup(PowerupUpdate(copy[i], game.dt))
         IN  IF CheckCollision(st.p, pw)
             THEN PowerupLoopNoExpiry(
                      [powerups |-> ListRemove(st.powerups, pw.id),
                       p |-> HandlePowerupCollected(st.p, pw.powerup_type),
                       collected |-> Append(st.collected, pw.powerup_type)],
                      copy, i + 1)
             ELSE PowerupLoopNoExpiry([st EXCEPT !.powerups = Replace(@, pw)],
                                      copy, i + 1)

\* "Update powerups": the loop over the copy of the powerups from its i-th on.
\* st holds the powerups and the player p, with the log of the types collected.
RECURSIVE PowerupLoop(_, _, _)
PowerupLoop(st, copy, i) ==
    IF i > Len(copy) THEN st
    ELSE LET pw == WrapPowerup(PowerupUpdate(copy[i], game.dt))
         IN  IF CheckCollision(st.p, pw)
             THEN PowerupLoop([powerups |-> ListRemove(st.powerups, pw.id),
                               p |-> HandlePowerupCollected(st.p, pw.powerup_type),
                               collected |-> Append(st.collected, pw.powerup_type)],
                              copy, i + 1)
             ELSE IF pw.life <= 0
             THEN PowerupLoop([st EXCEPT !.powerups = ListRemove(@, pw.id)],
                              copy, i + 1)
             ELSE PowerupLoop([st EXCEPT !.powerups = Replace(@, pw)], copy, i + 1)

\* The places start_new_level may draw, in the order tried.
LevelSpots == <<[x |-> 100, y |-> 100], [x |-> 1180, y |-> 620],
                [x |-> 100, y |-> 620], [x |-> 1180, y |-> 100],
                [x |-> 640, y |-> 60], [x |-> 640, y |-> 660]>>

\* The layouts start_new_level may draw for n asteroids around the player p:
\* the first n places farther than 200 from the player, all of one kind.
LevelDraws(p, n) ==
    LET far == SelectSeq(LevelSpots, LAMBDA s : SafeDistance(s.x, s.y, p))
    IN  {[layout |-> [k \in 1..n |->
                        [x |-> far[k].x, y |-> far[k].y, u |-> 1, v |-> -1,
                         size |-> kind[1], type |-> kind[2]]]] :
            kind \in {<<"large", "normal">>, <<"medium", "unstable">>}}

\* The end of update: the powerups, "Check if level cleared" and "Apply magnet
\* effect to powerups".
UpdatePowerups ==
    /\ pc = "powerups" /\ game.error = ""
    /\ LET st    == PowerupLoop([powerups |-> powerups, p |-> player,
                                 collected |-> obs.collected], powerups, 1)
           clear == Len(asteroids) = 0 /\ ~game.level_cleared
           g1    == IF clear
                    THEN [game EXCEPT !.level_cleared = TRUE, !.level = @ + 1]
                    ELSE game
       IN  \E r \in LevelDraws(st.p, 3 + g1.level \div 2) :
           LET lv == StartNewLevel(g1, nextId, r)
           IN  /\ player' = st.p
               /\ asteroids' = IF clear THEN asteroids \o lv.new ELSE asteroids
               /\ nextId' = IF clear THEN nextId + Len(lv.new) ELSE nextId
               /\ powerups' = IF st.p.magnet
                              THEN [i \in 1..Len(st.powerups) |->
                                       MagnetPull(st.p, st.powerups[i])]
                              ELSE st.powerups
               /\ game' = [(IF clear THEN lv.g ELSE g1) EXCEPT !.error =
                             IF MagnetDivides(st.p, st.powerups)
                             THEN "ZeroDivisionError" ELSE @]
               /\ obs' = [Observe("powerups") EXCEPT
                            !.collected = st.collected,
                            !.divisors = IF st.p.magnet
                                         THEN MagnetDivisors(st.p, st.powerups)
                                         ELSE <<>>,
                            !.checks = @ \o [i \in 1..Len(powerups) |-> "PlayerPowerup"]
                                         \o <<"LevelClear">>]
    /\ pc' = "idle"
    /\ iter' = <<>>
    /\ UNCHANGED <<enemy, projectiles, ticks, events>>
    /\ UNCHANGED game_state

----------------------------------------------------------------------------
(* The states a game starts from here: the state initialize_game() leaves   *)
(* and states of a running game in which an encounter is one tick away.     *)

\* The game variables of GameplayState after initialize_game(), the level's
\* start delay over when started is TRUE; dt is the dt update is called with
\* and id the identity of the GameplayState object.
Game(started) ==
    [score |-> 0, level |-> 1, game_over |-> FALSE, level_cleared |-> FALSE,
     level_start_timer |-> IF started THEN 0 ELSE 20000,
     powerup_spawn_timer |-> IF started THEN 5000 ELSE 50000,
     effective_dt |-> DT, dt |-> DT, error |-> "", id |-> 1]

\* The draws of initialize_game(): the layout of the first level around the
\* player at the centre, and the draws of Enemy.__init__.
InitDraws ==
    {[layout |-> r.layout, flank |-> 1, shot_accuracy |-> 9000,
      strat_timer |-> 80000] :
        r \in LevelDraws(Player(SCREEN_WIDTH \div 2, SCREEN_HEIGHT \div 2), 3)}

\* An initialize_game() that keeps the player.
InitializeGameSamePlayer(g, id, r) ==
    [player |-> player,
     enemy |-> Enemy(100, 100, r),
     asteroids |-> StartNewLevel(Game(FALSE), id, r).new,
     projectiles |-> <<>>, powerups |-> <<>>,
     game |-> [Game(FALSE) EXCEPT !.dt = g.dt, !.effective_dt = g.effective_dt,
                                  !.id = g.id]]

\* initialize_game(): "Initialize or reset the game to starting state", g the
\* game variables before it, id the identity of the first new asteroid.
InitializeGame(g, id, r) ==
    [player |-> Player(SCREEN_WIDTH \div 2, SCREEN_HEIGHT \div 2),
     enemy |-> Enemy(100, 100, r),
     asteroids |-> StartNewLevel(Game(FALSE), id, r).new,
     projectiles |-> <<>>, powerups |-> <<>>,
     game |-> [Game(FALSE) EXCEPT !.dt = g.dt, !.effective_dt = g.effective_dt,
                                  !.id = g.id]]

\* handle_event(event) for a key of the player, event.type KEYDOWN or KEYUP.
PlayerHandleEvent(p, key, down) ==
    IF key = "left" THEN [p EXCEPT !.is_turning_left = down]
    ELSE IF key = "right" THEN [p EXCEPT !.is_turning_right = down]
    ELSE IF key = "up" THEN [p EXCEPT !.is_thrusting = down]
    ELSE IF key = "space" THEN [p EXCEPT !.is_shooting = down]
    ELSE p

Keys == {"left", "right", "up", "space", "r"}

\* The attributes of the GameplayState object that holds the game.
Gameplay ==
    [player |-> player, enemy |-> enemy, asteroids |-> asteroids,
     projectiles |-> projectiles, powerups |-> powerups, game |-> game]

\* GameplayState.handle_event for one key: ESC saves the gameplay state in
\* paused_gameplay_state and changes to a menu with resume_available, R
\* restarts a game that is over ("Restart the game"); then "Pass events to
\* player if game is active".
HandleKey(key, down) ==
    /\ game_state' =
          IF key = "escape" /\ down
          THEN ChangeState([game_state EXCEPT
                              !.paused_gameplay_state = GameplayObject(game.id)],
                           MenuState(TRUE))
          ELSE game_state
    /\ IF key = "r" /\ down /\ game.game_over
       THEN \E r \in InitDraws :
            LET new == InitializeGame(game, nextId, r)
            IN  /\ player' = PlayerHandleEvent(new.player, key, down)
                /\ enemy' = new.enemy
                /\ asteroids' = new.asteroids
                /\ projectiles' = new.projectiles
                /\ powerups' = new.powerups
                /\ game' = new.game
                /\ nextId' = nextId + Len(new.asteroids)
       ELSE /\ player' = IF game.game_over THEN player
                         ELSE PlayerHandleEvent(player, key, down)
            /\ UNCHANGED <<enemy, asteroids, projectiles, powerups, game, nextId>>
    /\ obs' = [Observe("event") EXCEPT
                 !.key = <<key, down>>,
                 !.paused = IF key = "escape" /\ down THEN Gameplay ELSE @]

\* GameState.handle_event passing a key of the game to the GameplayState.
HandleEvent ==
    /\ pc = "idle" /\ game.error = "" /\ events < MaxEvents
    /\ game_state.current_state = GameplayObject(game.id)
    /\ \E key \in Keys, down \in BOOLEAN : HandleKey(key, down)
    /\ events' = events + 1
    /\ UNCHANGED <<pc, iter, ticks>>

\* The player of a running game: at (x, y), at rest, firing or not.
PlayerAt(x, y, lives, shooting) ==
    [Player(x, y) EXCEPT !.lives = lives, !.is_shooting = shooting]

\* The enemy of a running game: active with some health left, or destroyed and
\* waiting for its respawn.
EnemyAt(x, y, rotation, health) ==
    LET e == Enemy(x, y, [flank |-> 1, shot_accuracy |-> 9000, strat_timer |-> 80000])
    IN  IF health > 0
        THEN [e EXCEPT !.rotation = rotation, !.health = health]
        ELSE [e EXCEPT !.rotation = rotation, !.health = 0, !.active = FALSE,
                       !.respawn_timer = 60000]

Scene(p, e, as, prs, pws, g) ==
    [player |-> p, enemy |-> e, asteroids |-> as, projectiles |-> prs,
     powerups |-> pws, game |-> g]

\* initialize_game(): the player at the centre, the enemy at (100, 100), the
\* first level's asteroids.
SceneStart ==
    {Scene(Player(SCREEN_WIDTH \div 2, SCREEN_HEIGHT \div 2),
           Enemy(100, 100, [flank |-> 1, shot_accuracy |-> 9000,
                            strat_timer |-> 80000]),
           StartNewLevel(Game(FALSE), 1, r).new, <<>>, <<>>, Game(FALSE)) :
        r \in LevelDraws(Player(SCREEN_WIDTH \div 2, SCREEN_HEIGHT \div 2), 3)}

\* The player fires at one asteroid of any size and type, 240 ahead of it; the
\* enemy is destroyed and lies where the asteroid is.
SceneSplit ==
    {Scene(PlayerAt(400, 360, 3, TRUE), EnemyAt(640, 360, 0, 0),
           <<Asteroid(1, 640, 360, 0, 0, size, type)>>, <<>>, <<>>, Game(TRUE)) :
        size \in Sizes, type \in AsteroidTypes}

\* The player fires a triple shot into a field of asteroids: two unstable ones
\* (1 and 2) at the side shots' ends, 140 apart, with asteroid 3 within 100 of
\* both and asteroid 4 upon asteroid 1; the unstable asteroid 5 within 100 of
\* asteroid 1 only, asteroid 6 within 100 of asteroid 5 only and asteroid 7
\* within 100 of asteroid 2 only.
SceneChain ==
    {Scene([PlayerAt(400, 360, 3, TRUE) EXCEPT !.triple_shot = TRUE,
                                               !.triple_shot_timer = 100000],
           EnemyAt(100, 100, 0, 0),
           <<Asteroid(1, 615, 290, 0, 0, "medium", "unstable"),
             Asteroid(2, 615, 430, 0, 0, size, "unstable"),
             Asteroid(3, 560, 360, 0, 0, "large", "normal"),
             Asteroid(4, 620, 300, 0, 0, "medium", "ice"),
             Asteroid(5, 615, 210, 0, 0, size, "unstable"),
             Asteroid(6, 615, 130, 0, 0, "medium", "mineral"),
             Asteroid(7, 615, 510, 0, 0, "small", "normal")>>,
           <<>>, <<>>, Game(TRUE)) :
        size \in {"medium", "small"}}

\* The player, with any number of lives, lies in the way of an asteroid, the
\* enemy upon it or destroyed; a projectile of the enemy arrives, and a powerup
\* drifts at the centre of the screen.
SceneCrash ==
    {Scene(PlayerAt(300, 300, lives, FALSE), EnemyAt(330, 300, 180, health),
           <<Asteroid(1, 340, 300, -20, 0, "large", "normal"),
             Asteroid(2, 900, 600, 0, 0, "large", "normal")>>,
           <<Projectile(3, 450, 300, -300, 0)>>,
           IF type = "" THEN <<>>
           ELSE <<Powerup(4, 650, 360, 0, 0, type)>>,
           Game(TRUE)) :
        lives \in 1..PlayerLives, health \in {0, 4},
        type \in {"", "shield", "extralife"}}

\* The player fires at the enemy 260 ahead of it, the enemy at any health; or
\* an asteroid drifts upon the enemy.
SceneDuel ==
    {Scene(PlayerAt(400, 360, 3, shooting), EnemyAt(660, 360, 180, health),
           <<Asteroid(1, IF shooting THEN 1100 ELSE 670, 360, -20, 0,
                      "large", "normal")>>,
           <<>>, <<>>, Game(TRUE)) :
        shooting \in BOOLEAN, health \in 1..EnemyMaxHealth}

\* The player, with or without the magnet, among powerups at rest 60, 140,
\* 200, 250 and 300 from it.
SceneMagnet ==
    {Scene([PlayerAt(400, 300, 3, FALSE) EXCEPT
                !.magnet = magnet, !.magnet_timer = IF magnet THEN 180000 ELSE 0],
           EnemyAt(1100, 650, 0, 0),
           <<Asteroid(1, 1000, 100, 0, 0, "large", "normal")>>, <<>>,
           <<Powerup(2, 460, 300, 0, 0, "shield"),
             Powerup(3, 400, 440, 0, 0, "rapidfire"),
             Powerup(4, 560, 420, 0, 0, "tripleshot"),
             Powerup(5, 650, 300, 0, 0, "timeslow"),
             Powerup(6, 700, 300, 0, 0, "extralife")>>,
           Game(TRUE)) :
        magnet \in BOOLEAN}

\* The player with every power-up active and about to run out (0.5 s or 0.7 s
\* left), active for long, or with none; a powerup of any type lies upon it
\* and an old one (0.5 s left) far from it; an old projectile (0.4 s left)
\* and an asteroid fly far from everything; the enemy is destroyed, or is
\* active far from the player.
Pickup(left, type, health) ==
    Scene([PlayerAt(400, 300, 3, FALSE) EXCEPT
               !.invulnerable = left > 0, !.invulnerable_timer = left,
               !.rapid_fire = left > 0, !.rapid_fire_timer = left,
               !.time_slow = left > 0, !.time_slow_timer = left,
               !.triple_shot = left > 0, !.triple_shot_timer = left,
               !.magnet = left > 0, !.magnet_timer = left],
          EnemyAt(1100, 650, 0, health),
          <<Asteroid(1, 1000, 100, 40, 0, "large", "normal")>>,
          <<[Projectile(2, 100, 600, 0, -100) EXCEPT !.life = 4000]>>,
          <<Powerup(3, 400, 300, 0, 0, type),
            [Powerup(4, 700, 500, 0, 0, "shield") EXCEPT !.life = 5000]>>,
          Game(TRUE))

ScenePickup ==
    {Pickup(left, type, 0) : left \in {0, 5000, 7000, 100000}, type \in PowerupTypes}
    \cup {Pickup(left, "rapidfire", EnemyMaxHealth) : left \in {0, 100000}}

\* Two projectiles in flight, the older one about to reach the player (with
\* lives to spare, or on its last life), the other far from everything; a
\* powerup drifts far from the player.
SceneVolley ==
    {Scene(PlayerAt(300, 300, lives, FALSE), EnemyAt(1100, 650, 0, 0),
           <<Asteroid(1, 1000, 100, 0, 0, "large", "normal")>>,
           <<Projectile(2, 450, 300, -300, 0), Projectile(3, 100, 600, 0, -100)>>,
           <<Powerup(4, 700, 500, 0, 0, "shield")>>,
           Game(TRUE)) :
        lives \in {1, PlayerLives}}

\* Entities near the edges of the window and of the 800 x 600 area: powerups
\* in the right and in the lower part of the window, an asteroid and a
\* projectile leaving the window to the right, and the enemy heading for the
\* right edge near its top speed.
SceneDrift ==
    {Scene(PlayerAt(400, 300, PlayerLives, FALSE),
           [EnemyAt(1100, 650, 0, EnemyMaxHealth) EXCEPT !.vel_x = 275],
           <<Asteroid(1, 1300, 100, 100, 0, "large", "normal")>>,
           <<Projectile(2, 1270, 600, 300, 0)>>,
           <<Powerup(3, 900, 300, 20, 0, "shield"),
             Powerup(4, 400, 650, 0, 0, "magnet"),
             Powerup(5, 810, 300, 0, 0, "timeslow")>>,
           Game(TRUE))}

\* Two projectiles fly at an enemy that wanders out of sight of the player:
\* one to the right, 10 degrees off the player's rotation of 350, then one to
\* the left.
SceneOwner ==
    {Scene([PlayerAt(300, 300, PlayerLives, FALSE) EXCEPT !.rotation = 350],
           EnemyAt(1000, 600, 0, EnemyMaxHealth),
           <<Asteroid(1, 200, 650, 0, 0, "large", "normal")>>,
           <<Projectile(2, 855, 605, 300, 0), Projectile(3, 1160, 605, -300, 0)>>,
           <<>>, Game(TRUE))}

Scenes ==
    SceneStart \cup SceneSplit \cup SceneChain \cup SceneCrash \cup SceneDuel
    \cup SceneMagnet \cup ScenePickup \cup SceneVolley \cup SceneDrift
    \cup SceneOwner

Init ==
    /\ \E sc \in Scenes :
          /\ player = sc.player
          /\ enemy = sc.enemy
          /\ asteroids = sc.asteroids
          /\ projectiles = sc.projectiles
          /\ powerups = sc.powerups
          /\ game = sc.game
    /\ pc = "idle"
    /\ iter = <<>>
    /\ nextId = 100
    /\ ticks = 0
    /\ events = 0
    /\ game_state = Playing
    /\ obs = Unobserved

Next ==
    \/ HandleEvent
    \/ UpdateBegin
    \/ UpdateEnemy
    \/ UpdateAsteroids
    \/ UpdateProjectile
    \/ UpdatePowerups

Spec == Init /\ [][Next]_vars

----------------------------------------------------------------------------
(* Enemy.update on its own: one enemy in any behaviour, any heading and      *)
(* either firing mode, the player at the centre of the screen, called with  *)
(* the frame's dt or the game's.                                             *)

MaxCalls == 2

\* The dt of a frame at 60 frames per second.
FrameDt == 10000 \div 60

\* An enemy in a behaviour that lasts (behavior_timer 2 s), with or without a
\* last known position of the player, that position at (lx, ly).
EnemyIn(x, y, rotation, health, state, burst, known, lx, ly) ==
    [EnemyAt(x, y, rotation, health) EXCEPT
        !.behavior_state = state, !.behavior_timer = 20000, !.burst_mode = burst,
        !.has_last_player_pos = known, !.last_x = lx, !.last_y = ly]

Headings == {0, 15, 25, 180, 270}

\* In range of the player (140 to its left), out of range (at (100, 100), the
\* last known position 25 degrees off the heading 0), destroyed, in the
\* middle of an avoidance with its behaviour timer about to run out, and with
\* the behaviour timer about to run out at 100, 140 and 340 from the player,
\* and in flank or seek on either side with the player last sampled where it
\* is or 40 to the left or 30 above.
EnemyStates ==
    {EnemyIn(500, 360, h, health, st, burst, TRUE, 640, 360) :
        h \in Headings, health \in {1, 3},
        st \in {"seek", "attack", "ambush", "flank", "evade"}, burst \in BOOLEAN}
    \cup {EnemyIn(100, 100, h, 3, "seek", FALSE, known, 300, 193) :
        h \in Headings, known \in BOOLEAN}
    \cup {[EnemyAt(500, 360, 0, 0) EXCEPT !.respawn_timer = t] : t \in {100, 60000}}
    \cup {[EnemyIn(500, 360, h, 3, "evade", FALSE, TRUE, 640, 360) EXCEPT
              !.avoiding_asteroid = TRUE, !.avoidance_direction = d,
              !.avoidance_timer = t, !.behavior_timer = 1000] :
            h \in {0, 270}, d \in {-1, 1}, t \in {5000, 10000}}
    \cup {[EnemyIn(x, 360, 0, health, "seek", FALSE, TRUE, 640, 360) EXCEPT
              !.behavior_timer = 100] :
            x \in {540, 500, 300}, health \in {1, 3}}
    \cup {[EnemyIn(500, 360, 0, 3, st, FALSE, TRUE, lx, ly) EXCEPT
              !.flanking_direction = d] :
            st \in {"flank", "seek"}, d \in {-1, 1},
            lx \in {600, 640}, ly \in {330, 360}}

\* The asteroids in view: none; one 160 above the enemy at (500, 360) and
\* coming down; one in range that recedes, alone or with one that comes from
\* the left, above or below the enemy's line.
EnemyAsteroids ==
    {<<>>, <<Asteroid(1, 500, 200, 0, 40, "large", "normal")>>,
     <<Asteroid(1, 560, 200, 0, -40, "large", "normal")>>}
    \cup {<<Asteroid(1, 560, 200, 0, -40, "large", "normal"),
             Asteroid(2, 380, y, 40, 0, "medium", "normal")>> : y \in {300, 420}}

InitEnemy ==
    /\ player = Player(SCREEN_WIDTH \div 2, SCREEN_HEIGHT \div 2)
    /\ enemy \in EnemyStates
    /\ asteroids \in EnemyAsteroids
    /\ projectiles = <<>>
    /\ powerups = <<>>
    /\ game = Game(TRUE)
    /\ pc = "call"
    /\ iter = <<>>
    /\ nextId = 100
    /\ ticks = 0
    /\ events = 0
    /\ game_state = Playing
    /\ obs = Unobserved

\* The enemy and the record of the call after Enemy.update returned u.
EnemyCalled(u, dt) ==
    /\ enemy' = u.e
    /\ obs' = [Observe("update") EXCEPT
                 !.fire = u.fire, !.branch = u.branch, !.angle_diff = u.angle_diff,
                 !.target = u.target,
                 !.divisors = u.divisors, !.dt = dt,
                 !.off_player = AngleDiff(AngleTo(u.e, player.x, player.y),
                                          u.e.rotation)]

\* The draws of a call: those of the tick, and the same with a draw of 0.65
\* in update_behavior_state.
CallDraws == EnemyDraws \cup {[r EXCEPT !.beh = 6500] : r \in EnemyDraws}

CallEnemyUpdate ==
    /\ pc = "call" /\ ticks < MaxCalls
    /\ \E r \in CallDraws, dt \in {FrameDt, DT} :
          EnemyCalled(EnemyUpdate(enemy, dt, player.x, player.y, SCREEN_WIDTH,
                                  SCREEN_HEIGHT, asteroids, r), dt)
    /\ ticks' = ticks + 1
    /\ UNCHANGED <<player, asteroids, projectiles, powerups, game, pc, iter,
                   nextId, events>>
    /\ UNCHANGED game_state

NextEnemy == CallEnemyUpdate

SpecEnemy == InitEnemy /\ [][NextEnemy]_vars

----------------------------------------------------------------------------
(* check_collision on its own: called once with any two entities of the     *)
(* game, the first at (300, 300) and the second at an offset from it; the   *)
(* offsets hold the places where the two circles touch (45 = 20 + 25,       *)
(* 60 = 40 + 20, 18 = 3 + 15, and 27, 36 and 36, 48 on the diagonals).      *)

Offsets == {-45, 0, 18, 27, 36, 44, 45, 46, 48, 60}

\* One entity of every class and radius at (x, y).
EntitiesAt(x, y) ==
    {Player(x, y), EnemyAt(x, y, 0, EnemyMaxHealth), Projectile(1, x, y, 0, 0),
     Powerup(1, x, y, 0, 0, "shield")}
    \cup {Asteroid(1, x, y, 0, 0, size, type) :
             size \in Sizes, type \in {"normal", "ice"}}

\* iter holds the two arguments of the call.
InitCollision ==
    /\ player = Player(SCREEN_WIDTH \div 2, SCREEN_HEIGHT \div 2)
    /\ enemy = EnemyAt(100, 100, 0, EnemyMaxHealth)
    /\ asteroids = <<>>
    /\ projectiles = <<>>
    /\ powerups = <<>>
    /\ game = Game(TRUE)
    /\ pc = "check"
    /\ \E dx \in Offsets, dy \in Offsets :
          \E e1 \in EntitiesAt(300, 300), e2 \in EntitiesAt(300 + dx, 300 + dy) :
             iter = <<e1, e2>>
    /\ nextId = 100
    /\ ticks = 0
    /\ events = 0
    /\ game_state = Playing
    /\ obs = Unobserved

\* check_collision(entity1, entity2) and check_collision(entity2, entity1).
CallCheckCollision ==
    /\ pc = "check"
    /\ obs' = [Observe("check") EXCEPT
                 !.collides = <<CheckCollision(iter[1], iter[2]),
                                CheckCollision(iter[2], iter[1])>>]
    /\ pc' = "checked"
    /\ UNCHANGED <<player, enemy, asteroids, projectiles, powerups, game, iter,
                   nextId, ticks, events>>
    /\ UNCHANGED game_state

NextCollision == CallCheckCollision

SpecCollision == InitCollision /\ [][NextCollision]_vars

----------------------------------------------------------------------------
(* The placement loop of start_new_level on its own: from the state its     *)
(* head leaves (no asteroid, level_cleared down), one step per position     *)
(* drawn, rejected when it is not farther than 200 from the player.  The    *)
(* generator draws every position of the screen again and again, so a       *)
(* position the loop accepts is drawn at last: the accepted draw is fair.   *)

\* Where the player may be when a level starts.
LevelPlayers == {Player(SCREEN_WIDTH \div 2, SCREEN_HEIGHT \div 2),
                 Player(100, 100), Player(1180, 620)}

\* The positions random.randint may draw: three places of the screen, the
\* player's own and the one 200 to its right (or the screen's edge).
LevelPoints(p) ==
    {[x |-> 100, y |-> 100], [x |-> 1180, y |-> 620], [x |-> 640, y |-> 60],
     [x |-> p.x, y |-> p.y], [x |-> Min(p.x + 200, SCREEN_WIDTH), y |-> p.y]}

\* The sizes and types random.choice may draw.
LevelKinds == {[size |-> "large", type |-> "normal"],
               [size |-> "medium", type |-> "unstable"]}

InitLevel ==
    /\ player \in LevelPlayers
    /\ enemy = EnemyAt(100, 100, 0, EnemyMaxHealth)
    /\ asteroids = <<>>
    /\ projectiles = <<>>
    /\ powerups = <<>>
    /\ \E level \in 1..2 :
          game = [Game(FALSE) EXCEPT !.level = level]
    /\ pc = "place"
    /\ iter = <<>>
    /\ nextId = 100
    /\ ticks = 0
    /\ events = 0
    /\ game_state = Playing
    /\ obs = Unobserved

\* A position too close to the player: the inner loop draws again.
DrawRejected ==
    /\ pc = "place"
    /\ \E d \in LevelPoints(player) :
          /\ ~SafeDistance(d.x, d.y, player)
          /\ obs' = [Observe("rejected") EXCEPT !.draw = d]
    /\ UNCHANGED <<player, enemy, asteroids, projectiles, powerups, game, pc,
                   iter, nextId, ticks, events>>
    /\ UNCHANGED game_state

\* A position the loop accepts: the asteroid is appended, and the outer loop
\* ends after 3 + level // 2 of them.
DrawAccepted ==
    /\ pc = "place"
    /\ \E d \in LevelPoints(player), kind \in LevelKinds :
          /\ SafeDistance(d.x, d.y, player)
          /\ asteroids' = Append(asteroids,
                LevelAsteroid(nextId, [x |-> d.x, y |-> d.y, u |-> 1, v |-> -1,
                                       size |-> kind.size, type |-> kind.type],
                              game.level))
          /\ obs' = [Observe("accepted") EXCEPT !.draw = d]
    /\ nextId' = nextId + 1
    /\ pc' = IF Len(asteroids) + 1 = 3 + game.level \div 2 THEN "placed" ELSE "place"
    /\ UNCHANGED <<player, enemy, projectiles, powerups, game, iter, ticks, events>>
    /\ UNCHANGED game_state

NextLevel == DrawRejected \/ DrawAccepted

SpecLevel == InitLevel /\ [][NextLevel]_vars /\ WF_vars(DrawAccepted)

----------------------------------------------------------------------------
(* Properties of the destruction of asteroids. *)

\* The asteroid a projectile destroyed in the last step, if Destroyed holds.
Destroyed == obs.step = "projectile" /\ obs.hits # <<>>

Victim == obs.hits[1]

\* The size an asteroid splits into.
Smaller(size) == IF size = "large" THEN "medium" ELSE "small"

\* The asteroids of the collection that the last step created.
Created == SelectSeq(asteroids, LAMBDA b : b.id >= obs.pre_id)

\* The asteroids of the collection that the last step created as the children
\* of b: at its position, of its type, one size smaller.
ChildrenOf(b) ==
    SelectSeq(Created, LAMBDA c : /\ c.x = b.x /\ c.y = b.y /\ c.type = b.type
                                  /\ c.size = Smaller(b.size))

\* The asteroids that were in the collection before the last step, other than
\* b, with their centre less than 100 from b.
Nearby(b) ==
    SelectSeq(obs.pre_asteroids,
              LAMBDA c : c.id # b.id /\ Dist2(c.x, c.y, b.x, b.y) < 100 * 100)

\* The score table: 100, 150, 200 by size, plus 50 for Mineral, 75 for Unstable.
TableScore(b) ==
    (CASE b.size = "large" -> 100 [] b.size = "medium" -> 150 [] b.size = "small" -> 200)
    + (CASE b.type = "mineral" -> 50 [] b.type = "unstable" -> 75 [] OTHER -> 0)

\* C1: after a projectile destroys an asteroid of any type, the collection
\* holds exactly 2 new asteroids if it was Large or Medium, one size smaller,
\* of its type and at its position, and no new asteroid if it was Small.
C1_SplitInTwo ==
    Destroyed =>
        /\ Len(Created) = (IF Victim.size = "small" THEN 0 ELSE 2)
        /\ Len(ChildrenOf(Victim)) = Len(Created)

\* C2: an asteroid destroyed by the blast of an Unstable asteroid splits like
\* any other: a Large or Medium one leaves 2 asteroids one size smaller at its
\* position, it does not disappear in one step.
C2_BlastSplits ==
    (Destroyed /\ Victim.type = "unstable") =>
        \A k \in 1..Len(Nearby(Victim)) :
            Nearby(Victim)[k].size # "small" =>
                Len(ChildrenOf(Nearby(Victim)[k])) = 2

\* An asteroid is removed from the collection although it is not in it.
RemovedTwice == game.error = "ValueError"

\* C3: when an Unstable asteroid is destroyed, every other asteroid with its
\* centre less than 100 from it is removed in the same step, once: nothing is
\* removed twice and the step scores the destroyed asteroid only, also when
\* another Unstable asteroid was hit earlier in the tick.
C3_BlastRemovesOnce ==
    /\ ~RemovedTwice
    /\ (Destroyed /\ Victim.type = "unstable") =>
          /\ \A k \in 1..Len(Nearby(Victim)) :
                ~InList(asteroids, Nearby(Victim)[k].id)
          /\ game.score = obs.pre_score + TableScore(Victim)

\* A second Unstable asteroid is destroyed in the first tick, after the blast
\* of the first, and its own blast removes an asteroid.
C3_Reached ==
    /\ Destroyed /\ Victim.type = "unstable"
    /\ ticks = 1 /\ obs.pre_score > 0
    /\ Len(Nearby(Victim)) > 0
    /\ ~InList(asteroids, Nearby(Victim)[1].id)

\* C4: the chain reaction is recursive: an Unstable asteroid destroyed by the
\* blast of another also detonates, so the asteroids less than 100 from it are
\* gone after the step too.
C4_ChainRecursive ==
    (Destroyed /\ Victim.type = "unstable") =>
        \A k \in 1..Len(Nearby(Victim)) :
            Nearby(Victim)[k].type = "unstable" =>
                \A j \in 1..Len(Nearby(Nearby(Victim)[k])) :
                    \/ Nearby(Nearby(Victim)[k])[j].id = Victim.id
                    \/ ~InList(asteroids, Nearby(Nearby(Victim)[k])[j].id)

\* C10: the step in which a projectile destroys an asteroid adds to the score
\* exactly the table's amount for its size and type (100 for a Large Normal
\* one) and removes the asteroid from the collection.
C10_ScoreTable ==
    Destroyed =>
        /\ game.score = obs.pre_score + TableScore(Victim)
        /\ (Victim.size = "large" /\ Victim.type = "normal"
                => game.score = obs.pre_score + 100)
        /\ ~InList(asteroids, Victim.id)

\* A projectile destroyed a Medium Mineral asteroid and the step scored 200.
C10_Reached ==
    /\ Destroyed /\ Victim.size = "medium" /\ Victim.type = "mineral"
    /\ game.score = obs.pre_score + 200

----------------------------------------------------------------------------
(* Properties of the player's lives and of the enemy's destruction. *)

\* C5: in every reachable state the player's lives counter is >= 0.
C5_LivesNotNegative == player.lives >= 0

\* The end of a tick in which the player, not invulnerable, collided with an
\* asteroid; Crash is that death, with the lives the player had.
Crashed ==
    /\ obs.step = "powerups"
    /\ \E k \in 1..Len(obs.deaths) : obs.deaths[k].cause = "asteroid"

Crash == obs.deaths[CHOOSE k \in 1..Len(obs.deaths) : obs.deaths[k].cause = "asteroid"]

AtCentreAtRest ==
    /\ player.x = SCREEN_WIDTH \div 2 /\ player.y = SCREEN_HEIGHT \div 2
    /\ player.vel_x = 0 /\ player.vel_y = 0

\* The number of extra lives among the powerups collected in the tick.
ExtraLives == Len(SelectSeq(obs.collected, LAMBDA t : t = "extralife"))

ShieldCollected == \E k \in 1..Len(obs.collected) : obs.collected[k] = "shield"

C8_EnemyDestroyed ==
    (obs.damage > 0 /\ obs.pre_enemy.active /\ obs.pre_enemy.health = 1) =>
        /\ ~enemy.active
        /\ enemy.respawn_timer = 80000
        /\ obs.step = "projectile" => game.score = obs.pre_score + 500
        /\ obs.step = "asteroids" => game.score = obs.pre_score + 250

\* A projectile of the player took the last health point of the enemy.
C8_Reached ==
    /\ obs.step = "projectile" /\ obs.damage = 1 /\ obs.pre_enemy.health = 1
    /\ ~enemy.active /\ game.score = obs.pre_score + 500

\* An asteroid took the last health point of the enemy.
C8_ReachedByAsteroid ==
    /\ obs.step = "asteroids" /\ obs.damage = 1 /\ obs.pre_enemy.health = 1
    /\ ~enemy.active /\ game.score = obs.pre_score + 250

\* C9: the enemy's health is within 0 .. 4 and between two ticks it is active
\* iff its health is > 0; a step that finds it inactive neither damages it, nor
\* has it fire, nor has it collide with the player; a step destroys it at most
\* once, from the active state, and awards the bonus once.
C9_OneEnemy ==
    /\ enemy.health \in 0..4
    /\ pc = "idle" => (enemy.active <=> enemy.health > 0)
    /\ (obs.step \in {"enemy", "asteroids", "projectile"} /\ ~obs.pre_enemy.active) =>
          /\ obs.damage = 0 /\ obs.kill = "" /\ ~obs.fire
          /\ obs.step = "enemy" => obs.deaths = <<>>
    /\ obs.kill # "" =>
          /\ obs.pre_enemy.active /\ obs.damage = 1 /\ ~enemy.active
          /\ game.score = obs.pre_score + (IF obs.kill = "projectile" THEN 500 ELSE 250)

\* The asteroid loop ran over an asteroid that touches the destroyed enemy and
\* left the enemy alone.
C9_Reached ==
    /\ obs.step = "asteroids" /\ ~obs.pre_enemy.active /\ ~enemy.active
    /\ \E k \in 1..Len(asteroids) : CheckCollision(enemy, asteroids[k])
    /\ obs.damage = 0

----------------------------------------------------------------------------
(* Properties of the enemy's fire. *)

\* Enemy.update returned True in the last step.
Fired == obs.step \in {"update", "enemy"} /\ obs.fire

C7_ReachedEvade == Fired /\ obs.branch = "evade" /\ Abs(obs.angle_diff) >= 20

C7_ReachedPursuit == Fired /\ obs.branch = "pursuit" /\ Abs(obs.angle_diff) >= 20

C7_ReachedWander == Fired /\ obs.branch = "wander" /\ Abs(obs.off_player) >= 20

----------------------------------------------------------------------------
(* Properties of check_collision. *)

\* The distance between the centres of two entities in tenths of a pixel,
\* rounded down, and the sum of their radii.
CentreDistance(e1, e2) == ISqrt(100 * Dist2(e1.x, e1.y, e2.x, e2.y))

RadiiSum(e1, e2) == e1.radius + e2.radius

Touching(e1, e2) ==
    100 * Dist2(e1.x, e1.y, e2.x, e2.y) = RadiiSum(e1, e2) * RadiiSum(e1, e2)

\* C11: check_collision(a, b) is true iff the distance between the centres is
\* strictly less than a.radius + b.radius, false when the distance equals the
\* sum, and check_collision(a, b) = check_collision(b, a).  (The sum is a whole
\* number of tenths, so the distance is below it iff its whole part is.)
C11_CheckCollision ==
    obs.step = "check" =>
        /\ obs.collides[1] =
              (CentreDistance(iter[1], iter[2])
                  < RadiiSum(iter[1], iter[2]))
        /\ Touching(iter[1], iter[2]) => ~obs.collides[1]
        /\ obs.collides[1] = obs.collides[2]

\* check_collision was called with the player and a powerup exactly 45 apart
\* on a diagonal, and returned false both ways.
C11_Reached ==
    /\ obs.step = "check"
    /\ iter[1] = Player(300, 300)
    /\ iter[2] = Powerup(1, 327, 336, 0, 0, "shield")
    /\ Touching(iter[1], iter[2])
    /\ obs.collides = <<FALSE, FALSE>>

----------------------------------------------------------------------------
(* Properties of the powerups. *)

\* The end of a tick that ran to its end.
TickEnded == obs.step = "powerups" /\ game.error = ""

\* The square of the distance between the player and a powerup.
Apart2(pw) == Dist2(pw.x, pw.y, player.x, player.y)

InMagnetRadius(pw) == Apart2(pw) < player.magnet_radius * player.magnet_radius

\* The velocity the magnet step added to a powerup of the collection: its
\* velocity less the velocity Powerup.update left (0.995 of the one before).
Impulse(pw) ==
    LET before == ById(obs.pre_powerups, pw.id)
    IN  <<pw.vel_x - Round(before.vel_x * 995, 1000),
          pw.vel_y - Round(before.vel_y * 995, 1000)>>

\* C12: at the end of a tick, with the magnet active the impulse on a powerup
\* at a distance >= magnet_radius (250) is zero; within the radius it points
\* toward the player and is the force along the direction to the player, a
\* force that is positive and strictly greater for the nearer of any two
\* powerups; with the magnet inactive no powerup has an impulse.
C12_MagnetPull ==
    TickEnded =>
        \A i \in 1..Len(powerups) :
            LET pw == powerups[i]
                dx == player.x - pw.x
                dy == player.y - pw.y
            IN  /\ ~player.magnet => Impulse(pw) = <<0, 0>>
                /\ player.magnet /\ ~InMagnetRadius(pw) => Impulse(pw) = <<0, 0>>
                /\ player.magnet /\ InMagnetRadius(pw) =>
                      /\ MagnetForce(player, Apart2(pw)) > 0
                      /\ Impulse(pw)[1] * dx >= 0 /\ Impulse(pw)[2] * dy >= 0
                      /\ Impulse(pw) =
                            <<MagnetImpulse(dx, MagnetForce(player, Apart2(pw)), Apart2(pw)),
                              MagnetImpulse(dy, MagnetForce(player, Apart2(pw)), Apart2(pw))>>
                      /\ \A j \in 1..Len(powerups) :
                            Apart2(pw) < Apart2(powerups[j])
                                /\ InMagnetRadius(powerups[j])
                            => MagnetForce(player, Apart2(pw))
                                 > MagnetForce(player, Apart2(powerups[j]))

\* A tick ends with the magnet active, the powerup 60 to the right of the
\* player pulled to the left by 9 and the powerups at 250 and 300 not pulled.
C12_Reached ==
    /\ TickEnded /\ player.magnet /\ Len(powerups) >= 5
    /\ Apart2(powerups[1]) = 60 * 60 /\ Impulse(powerups[1]) = <<-9, 0>>
    /\ Apart2(powerups[4]) = 250 * 250 /\ Impulse(powerups[4]) = <<0, 0>>
    /\ Apart2(powerups[5]) = 300 * 300 /\ Impulse(powerups[5]) = <<0, 0>>

\* The effect the specification states for a powerup of a type.
StatedEffect(p, type) ==
    CASE type = "magnet"     -> [p EXCEPT !.magnet = TRUE, !.magnet_timer = 180000]
      [] type = "shield"     -> [p EXCEPT !.invulnerable = TRUE,
                                          !.invulnerable_timer = 150000]
      [] type = "rapidfire"  -> [p EXCEPT !.rapid_fire = TRUE,
                                          !.rapid_fire_timer = 150000]
      [] type = "tripleshot" -> [p EXCEPT !.triple_shot = TRUE,
                                          !.triple_shot_timer = 150000]
      [] type = "timeslow"   -> [p EXCEPT !.time_slow = TRUE,
                                          !.time_slow_timer = 100000]
      [] type = "extralife"  -> [p EXCEPT !.lives = @ + 1]

\* The stated effects of types[i..], one after the other.
RECURSIVE StatedEffects(_, _, _)
StatedEffects(p, types, i) ==
    IF i > Len(types) THEN p
    ELSE StatedEffects(StatedEffect(p, types[i]), types, i + 1)

\* C13: at the end of a tick every powerup collected in it is out of the
\* collection, and the player is the player the powerup loop began with but
\* for the stated effect of each powerup collected: magnet sets magnet and
\* magnet_timer 18.0, shield invulnerable and 15.0, rapidfire 15.0, tripleshot
\* 15.0, timeslow 10.0, extralife adds 1 to lives; every other flag, timer and
\* field is as it was.
C13_PowerupEffect ==
    TickEnded =>
        /\ player = StatedEffects(obs.pre_player, obs.collected, 1)
        /\ \A k \in 1..Len(obs.collected) :
              \E i \in 1..Len(obs.pre_powerups) :
                 /\ obs.pre_powerups[i].powerup_type = obs.collected[k]
                 /\ ~InList(powerups, obs.pre_powerups[i].id)

\* A tick ends in which a player without power-ups collected a magnet: the
\* magnet is active for 18.0 and no other power-up is.
C13_Reached ==
    /\ TickEnded /\ obs.collected = <<"magnet">>
    /\ ~obs.pre_player.magnet
    /\ player.magnet /\ player.magnet_timer = 180000
    /\ ~player.invulnerable /\ ~player.rapid_fire /\ ~player.time_slow
    /\ ~player.triple_shot

----------------------------------------------------------------------------
(* Properties of the player's power-ups and of time. *)

\* Between two ticks.
TickBoundary == pc = "idle" /\ game.error = ""

\* C14: at every tick boundary each power-up flag of the player
\* (invulnerable, rapid_fire, time_slow, triple_shot, magnet) is true iff its
\* timer is > 0.
C14_FlagIffTimer ==
    TickBoundary =>
        /\ player.invulnerable <=> player.invulnerable_timer > 0
        /\ player.rapid_fire <=> player.rapid_fire_timer > 0
        /\ player.time_slow <=> player.time_slow_timer > 0
        /\ player.triple_shot <=> player.triple_shot_timer > 0
        /\ player.magnet <=> player.magnet_timer > 0

\* A tick ends in which time slow, rapid fire and the magnet ran out (their
\* timers are below 0) and a shield was collected.
C14_Reached ==
    /\ TickBoundary /\ obs.step = "powerups" /\ obs.collected = <<"shield">>
    /\ ~player.time_slow /\ player.time_slow_timer < 0
    /\ ~player.rapid_fire /\ player.rapid_fire_timer < 0
    /\ ~player.magnet /\ player.magnet_timer < 0
    /\ player.invulnerable /\ player.invulnerable_timer = 150000

\* A tick ends in which the player died and came back invulnerable.
C14_ReachedDeath ==
    /\ TickBoundary /\ obs.step = "powerups" /\ obs.deaths # <<>>
    /\ player.invulnerable /\ player.invulnerable_timer > 0

\* The delta time the specification states for the enemy, the asteroids and
\* the projectiles of this tick: dt x 0.167 if time slow was active when the
\* tick began, dt otherwise.
StatedDt == IF obs.slow THEN (DT * 167) \div 1000 ELSE DT

\* The projectile the last step visited, if it is still in the collection.
VisitedRemains == obs.step = "projectile" /\ InList(projectiles, obs.visited)

\* C15: in a tick that began with time slow active the enemy (its respawn
\* timer when destroyed, its strategy timer when active), the asteroids and
\* the projectiles are updated with dt x 0.167, and the player's position and
\* power-up timers with dt; in a tick that began without, all with dt.
C15_TimeSlow ==
    /\ obs.step = "begin" =>
          /\ player.x = Wrap(obs.pre_player.x + Step(player.vel_x, DT), 0, SCREEN_WIDTH)
          /\ player.y = Wrap(obs.pre_player.y + Step(player.vel_y, DT), 0, SCREEN_HEIGHT)
          /\ obs.pre_player.time_slow /\ obs.pre_player.time_slow_timer > 2 * DT
                => player.time_slow_timer = obs.pre_player.time_slow_timer - 2 * DT
          /\ obs.pre_player.magnet /\ obs.pre_player.magnet_timer > 2 * DT
                => player.magnet_timer = obs.pre_player.magnet_timer - 2 * DT
          /\ obs.pre_player.invulnerable /\ obs.pre_player.invulnerable_timer > 2 * DT
                => player.invulnerable_timer = obs.pre_player.invulnerable_timer - 2 * DT
    /\ obs.step = "enemy" =>
          /\ ~obs.pre_enemy.active /\ obs.pre_enemy.respawn_timer > StatedDt
                => enemy.respawn_timer = obs.pre_enemy.respawn_timer - StatedDt
          /\ obs.pre_enemy.active /\ obs.pre_enemy.strategy_change_timer > StatedDt
                => enemy.strategy_change_timer
                     = obs.pre_enemy.strategy_change_timer - StatedDt
    /\ obs.step = "asteroids" /\ asteroids # <<>> =>
          /\ asteroids[1].x = WrapAsteroid(AsteroidUpdate(obs.pre_asteroids[1], StatedDt)).x
          /\ asteroids[1].y = WrapAsteroid(AsteroidUpdate(obs.pre_asteroids[1], StatedDt)).y
    /\ VisitedRemains =>
          /\ ById(projectiles, obs.visited).life
                = ById(obs.pre_projectiles, obs.visited).life - StatedDt
          /\ ById(projectiles, obs.visited).y
                = Wrap(ById(obs.pre_projectiles, obs.visited).y
                         + Step(ById(projectiles, obs.visited).vel_y, StatedDt),
                       0, SCREEN_HEIGHT)

\* In a tick that began with time slow active, a projectile with 0.4 s left
\* was updated and has 0.3165 s left.
C15_Reached ==
    /\ obs.slow /\ VisitedRemains
    /\ ById(obs.pre_projectiles, obs.visited).life = 4000
    /\ ById(projectiles, obs.visited).life = 3165

\* In a tick that began with time slow active, the destroyed enemy's respawn
\* timer went from 6.0 to 5.9165.
C15_ReachedEnemy ==
    /\ obs.slow /\ obs.step = "enemy" /\ ~obs.pre_enemy.active
    /\ obs.pre_enemy.respawn_timer = 60000 /\ enemy.respawn_timer = 59165

\* In a tick that began with time slow active, the asteroid moving at 40
\* advanced by 3 and the active enemy's strategy timer ran by 0.0835.
C15_ReachedActive ==
    /\ obs.slow /\ obs.step = "asteroids" /\ obs.pre_enemy.active
    /\ asteroids # <<>> /\ asteroids[1].x = obs.pre_asteroids[1].x + 3

----------------------------------------------------------------------------
(* Properties of the levels. *)

\* The asteroid collection was empty at the level-clear check of the tick
\* that just ended (the powerup loop before the check leaves it alone).
ClearedAtCheck == TickEnded /\ obs.pre_asteroids = <<>>

\* C16: at the end of a tick, if the asteroid collection was empty at the
\* level-clear check the level is one more than before and the collection
\* holds the new level's asteroids; if an asteroid remained the level and the
\* collection are as they were; no other step changes the level, and the
\* collection is not empty at the end of a tick.
C16_LevelClear ==
    /\ ClearedAtCheck =>
          /\ game.level = obs.pre_level + 1
          /\ Len(asteroids) = 3 + game.level \div 2
          /\ ~game.level_cleared
    /\ TickEnded /\ obs.pre_asteroids # <<>> =>
          game.level = obs.pre_level /\ asteroids = obs.pre_asteroids
    /\ obs.step # "powerups" /\ obs.step # "init" => game.level = obs.pre_level
    /\ TickEnded => asteroids # <<>>

\* A tick of level 1 ends whose last asteroid was destroyed: the level is 2
\* and 4 asteroids are in the collection.
C16_Reached ==
    /\ ClearedAtCheck /\ obs.pre_level = 1
    /\ game.level = 2 /\ Len(asteroids) = 4

\* What start_new_level has placed so far is as stated: no more than
\* 3 + floor(level / 2) asteroids, exactly as many when it returns, each Large
\* or Medium and farther than 200 from the player.
Placement ==
    /\ Len(asteroids) <= 3 + game.level \div 2
    /\ pc = "placed" => Len(asteroids) = 3 + game.level \div 2
    /\ pc = "place" => Len(asteroids) < 3 + game.level \div 2
    /\ \A i \in 1..Len(asteroids) :
          /\ asteroids[i].size \in {"large", "medium"}
          /\ Dist2(asteroids[i].x, asteroids[i].y, player.x, player.y) > 200 * 200

\* C17: start_new_level adds exactly 3 + floor(level / 2) asteroids, each
\* Large or Medium and farther than 200 from the player, and its placement
\* loop comes to its end.
C17_LevelPopulation == []Placement /\ <>(pc = "placed")

\* start_new_level returned at level 2 with 4 asteroids.
C17_Reached ==
    /\ pc = "placed" /\ game.level = 2 /\ Len(asteroids) = 4

\* A position exactly 200 from the player was drawn and rejected.
C17_ReachedRejected ==
    /\ obs.step = "rejected"
    /\ Dist2(obs.draw.x, obs.draw.y, player.x, player.y) = 200 * 200

----------------------------------------------------------------------------
(* Properties of lifetimes and of the collections. *)

\* C18: at the end of every tick no projectile and no powerup whose life is
\* <= 0 remains in its collection.
C18_NoExpiredRemains ==
    TickEnded =>
        /\ \A i \in 1..Len(projectiles) : projectiles[i].life > 0
        /\ \A i \in 1..Len(powerups) : powerups[i].life > 0

\* A tick ends in which a powerup with 0.5 s left was not collected and is
\* out of the collection, while another powerup was collected.
C18_Reached ==
    /\ TickEnded /\ Len(obs.collected) = 1
    /\ \E i \in 1..Len(obs.pre_powerups) :
          /\ obs.pre_powerups[i].life = 5000
          /\ ~CheckCollision(player, obs.pre_powerups[i])
          /\ ~InList(powerups, obs.pre_powerups[i].id)

\* The projectile loop visited a projectile with 0.4 s left, in a tick
\* without time slow, and the projectile is out of the collection.
C18_ReachedProjectile ==
    /\ obs.step = "projectile" /\ ~obs.slow /\ obs.hits = <<>>
    /\ ById(obs.pre_projectiles, obs.visited).life = 4000
    /\ ~InList(projectiles, obs.visited)

\* C19: in every tick in which the game is running, the life of every
\* projectile and of every powerup that was in its collection when the tick
\* began and is still there when it ends has decreased, whatever collisions
\* other entities had in the tick (so that each is removed in the end).
C19_LifetimeDecreases ==
    TickEnded /\ ~game.game_over =>
        /\ \A i \in 1..Len(obs.start.projectiles) :
              InList(projectiles, obs.start.projectiles[i].id) =>
                 ById(projectiles, obs.start.projectiles[i].id).life
                    < obs.start.projectiles[i].life
        /\ \A i \in 1..Len(obs.start.powerups) :
              InList(powerups, obs.start.powerups[i].id) =>
                 ById(powerups, obs.start.powerups[i].id).life
                    < obs.start.powerups[i].life

\* C20: no removal fails (list.remove raises no ValueError); the projectile
\* loop visits the copy it took, so the projectiles still to visit are in the
\* collection and none is visited twice; and nothing removed earlier in the
\* tick is processed again: not the projectile visited, not the asteroid
\* handed to handle_asteroid_hit, not a powerup of the powerup loop.
C20_NoStaleEntity ==
    /\ game.error # "ValueError"
    /\ \A k \in 1..Len(iter) :
          /\ InList(projectiles, iter[k])
          /\ iter[k] # obs.visited
          /\ \A j \in 1..Len(iter) : iter[j] = iter[k] => j = k
    /\ obs.step = "projectile" =>
          /\ obs.visited \notin obs.gone
          /\ InList(obs.pre_projectiles, obs.visited)
          /\ \A k \in 1..Len(obs.hits) :
                /\ obs.hits[k].id \notin obs.gone
                /\ InList(obs.pre_asteroids, obs.hits[k].id)
    /\ obs.step = "powerups" =>
          \A i \in 1..Len(obs.pre_powerups) : obs.pre_powerups[i].id \notin obs.gone

\* A projectile destroyed an asteroid in a tick in which an earlier projectile
\* had removed itself and more than one asteroid.
C20_Reached ==
    /\ obs.step = "projectile" /\ obs.hits # <<>> /\ game.error = ""
    /\ Cardinality(obs.gone) > 2

----------------------------------------------------------------------------
(* The enemy's step of a tick.                                               *)

\* The enemy was active when "Update enemy" began and the step is done.
EnemyStepped == obs.step = "enemy" /\ game.error = "" /\ obs.pre_enemy.active

\* C21: on every tick in which the enemy is active its position is advanced
\* by its velocity times the effective dt and wrapped, and a running shoot
\* cooldown is decremented by the effective dt, also on the ticks on which
\* Enemy.update returns a fire decision.
C21_EnemyAdvances ==
    EnemyStepped =>
        /\ enemy.x = Wrap(obs.pre_enemy.x + Step(enemy.vel_x, game.effective_dt),
                          0, SCREEN_WIDTH)
        /\ enemy.y = Wrap(obs.pre_enemy.y + Step(enemy.vel_y, game.effective_dt),
                          0, SCREEN_HEIGHT)
        /\ obs.pre_enemy.shoot_cooldown > 0 =>
              enemy.shoot_cooldown = obs.pre_enemy.shoot_cooldown - game.effective_dt

\* The same on the ticks on which update returns no fire decision.
C21_AdvancesUnlessFiring ==
    EnemyStepped /\ ~obs.fire =>
        /\ enemy.x = Wrap(obs.pre_enemy.x + Step(enemy.vel_x, game.effective_dt),
                          0, SCREEN_WIDTH)
        /\ enemy.y = Wrap(obs.pre_enemy.y + Step(enemy.vel_y, game.effective_dt),
                          0, SCREEN_HEIGHT)
        /\ obs.pre_enemy.shoot_cooldown > 0 =>
              enemy.shoot_cooldown = obs.pre_enemy.shoot_cooldown - game.effective_dt

\* The entity of list a with the identity of e stands where one update of e
\* with the tick's effective dt and the wrap put it.
AdvancedOnce(list, e, moved) ==
    InList(list, e.id) =>
        /\ ById(list, e.id).x = moved.x
        /\ ById(list, e.id).y = moved.y

\* C22: on every tick in which the game is running, every asteroid and every
\* projectile present when the tick began (and still present when it ends) has
\* been advanced exactly once by its velocity times the effective dt,
\* whatever collision another asteroid or projectile had with the player or
\* the enemy in the tick.
C22_AllAdvancedOnce ==
    TickEnded =>
        /\ \A i \in 1..Len(obs.start.asteroids) :
              AdvancedOnce(asteroids, obs.start.asteroids[i],
                           WrapAsteroid(AsteroidUpdate(obs.start.asteroids[i],
                                                       game.effective_dt)))
        /\ \A i \in 1..Len(obs.start.projectiles) :
              AdvancedOnce(projectiles, obs.start.projectiles[i],
                           WrapProjectile(ProjectileUpdate(obs.start.projectiles[i],
                                                           game.effective_dt)))

----------------------------------------------------------------------------
(* Screen wrap.                                                              *)

\* A coordinate that update moved from old to moved, both inside the window
\* (0 .. hi), is at moved afterwards, or still at old for an entity that the
\* tick did not update: the wrap did not relocate it.
NotRelocated(now, old, moved, hi) ==
    (0 <= old /\ old <= hi /\ 0 <= moved /\ moved <= hi) => now \in {old, moved}

\* The entity of list with the identity of e, which its update moves by its
\* velocity (vx, vy) times dt, has not been relocated inside the window.
StaysInWindow(list, e, vx, vy, dt) ==
    InList(list, e.id) =>
        /\ NotRelocated(ById(list, e.id).x, e.x, e.x + Step(vx, dt), SCREEN_WIDTH)
        /\ NotRelocated(ById(list, e.id).y, e.y, e.y + Step(vy, dt), SCREEN_HEIGHT)

\* C23: the wrap relocates an entity only when its coordinate has left the
\* window by its margin; an asteroid, projectile, powerup, player or enemy
\* that is inside the visible screen before and after its move is never
\* relocated by the wrap.
C23_WrapOnlyOffScreen ==
    /\ obs.step = "begin" =>
          /\ NotRelocated(player.x, obs.pre_player.x,
                          obs.pre_player.x + Step(player.vel_x, DT), SCREEN_WIDTH)
          /\ NotRelocated(player.y, obs.pre_player.y,
                          obs.pre_player.y + Step(player.vel_y, DT), SCREEN_HEIGHT)
    /\ EnemyStepped =>
          /\ NotRelocated(enemy.x, obs.pre_enemy.x,
                          obs.pre_enemy.x + Step(enemy.vel_x, game.effective_dt),
                          SCREEN_WIDTH)
          /\ NotRelocated(enemy.y, obs.pre_enemy.y,
                          obs.pre_enemy.y + Step(enemy.vel_y, game.effective_dt),
                          SCREEN_HEIGHT)
    /\ obs.step = "asteroids" =>
          \A i \in 1..Len(obs.pre_asteroids) :
             StaysInWindow(asteroids, obs.pre_asteroids[i],
                           obs.pre_asteroids[i].vel_x, obs.pre_asteroids[i].vel_y,
                           game.effective_dt)
    /\ obs.step = "projectile" =>
          \A i \in 1..Len(obs.pre_projectiles) :
             StaysInWindow(projectiles, obs.pre_projectiles[i],
                           obs.pre_projectiles[i].vel_x,
                           obs.pre_projectiles[i].vel_y, game.effective_dt)
    /\ obs.step = "powerups" =>
          \A i \in 1..Len(obs.pre_powerups) :
             StaysInWindow(powerups, obs.pre_powerups[i],
                           obs.pre_powerups[i].vel_x, obs.pre_powerups[i].vel_y, DT)

\* The same for every entity but the powerups.
C23_OthersStayInWindow ==
    /\ obs.step = "begin" =>
          /\ NotRelocated(player.x, obs.pre_player.x,
                          obs.pre_player.x + Step(player.vel_x, DT), SCREEN_WIDTH)
          /\ NotRelocated(player.y, obs.pre_player.y,
                          obs.pre_player.y + Step(player.vel_y, DT), SCREEN_HEIGHT)
    /\ EnemyStepped =>
          /\ NotRelocated(enemy.x, obs.pre_enemy.x,
                          obs.pre_enemy.x + Step(enemy.vel_x, game.effective_dt),
                          SCREEN_WIDTH)
          /\ NotRelocated(enemy.y, obs.pre_enemy.y,
                          obs.pre_enemy.y + Step(enemy.vel_y, game.effective_dt),
                          SCREEN_HEIGHT)
    /\ obs.step = "asteroids" =>
          \A i \in 1..Len(obs.pre_asteroids) :
             StaysInWindow(asteroids, obs.pre_asteroids[i],
                           obs.pre_asteroids[i].vel_x, obs.pre_asteroids[i].vel_y,
                           game.effective_dt)
    /\ obs.step = "projectile" =>
          \A i \in 1..Len(obs.pre_projectiles) :
             StaysInWindow(projectiles, obs.pre_projectiles[i],
                           obs.pre_projectiles[i].vel_x,
                           obs.pre_projectiles[i].vel_y, game.effective_dt)

----------------------------------------------------------------------------
(* The order of the collision checks of a tick.                              *)

\* The place of a category in the stated order, the level-clear check last.
CategoryRank(c) ==
    CASE c = "PlayerEnemy" -> 1
      [] c = "PlayerAsteroid" -> 2
      [] c = "EnemyAsteroid" -> 3
      [] c = "ProjectilePlayer" -> 4
      [] c = "ProjectileEnemy" -> 5
      [] c = "ProjectileAsteroid" -> 6
      [] c = "PlayerPowerup" -> 7
      [] c = "LevelClear" -> 8

\* C24: within one tick every collision check of an earlier category (Player x
\* Enemy, Player x Asteroid, Enemy x Asteroid, Projectile x Player, Projectile
\* x Enemy, Projectile x Asteroid, Player x Powerup) is made before any check
\* of a later category, and the level-clear check comes after all of them.
C24_CategoryOrder ==
    \A i, j \in 1..Len(obs.checks) :
       i < j => CategoryRank(obs.checks[i]) <= CategoryRank(obs.checks[j])

\* The checks of the enemy step, of the asteroid loop, of the projectile loop
\* and of the powerup loop come in that order, the level-clear check last.
LoopRank(c) ==
    CASE c = "PlayerEnemy" -> 1
      [] c \in {"PlayerAsteroid", "EnemyAsteroid"} -> 2
      [] c \in {"ProjectilePlayer", "ProjectileEnemy", "ProjectileAsteroid"} -> 3
      [] c = "PlayerPowerup" -> 4
      [] c = "LevelClear" -> 5

C24_LoopOrder ==
    \A i, j \in 1..Len(obs.checks) :
       i < j => LoopRank(obs.checks[i]) <= LoopRank(obs.checks[j])

----------------------------------------------------------------------------
(* Divisions.                                                                *)

\* C25: no division by zero is reachable in a tick: every division of a
\* normalisation (estimated player velocity, flank and ambush direction,
\* velocity clamp, magnet pull) has a non-zero divisor, no ZeroDivisionError
\* is raised, and every powerup in the collection at the magnet step is at a
\* distance > 0 from the player, a powerup overlapping the player having been
\* collected earlier in the tick.
C25_NoZeroDivision ==
    /\ game.error # "ZeroDivisionError"
    /\ \A i \in 1..Len(obs.divisors) : obs.divisors[i] # 0
    /\ obs.step = "powerups" =>
          \A i \in 1..Len(powerups) :
             Dist2(player.x, player.y, powerups[i].x, powerups[i].y) > 0

\* The magnet step ran with the magnet on in a tick in which a powerup lying
\* exactly at the player's position was collected.
C25_Reached ==
    /\ TickEnded /\ player.magnet
    /\ \E i \in 1..Len(obs.pre_powerups) :
          /\ obs.pre_powerups[i].x = obs.pre_player.x
          /\ obs.pre_powerups[i].y = obs.pre_player.y
          /\ ~InList(powerups, obs.pre_powerups[i].id)

\* The magnet step divided by the distance of a powerup.
C25_ReachedPull == TickEnded /\ obs.divisors # <<>>

\* The flanking enemy in range of the player, where dir is the zero vector
\* and the estimated velocity is divided by the behaviour timer.
C25_ReachedFlank ==
    /\ obs.step = "enemy" /\ obs.branch = "aimed"
    /\ enemy.behavior_state = "flank" /\ obs.divisors # <<>>

\* A velocity clamp divided by the speed.
C25_ReachedClamp ==
    \/ obs.step = "begin" /\ obs.divisors # <<>>
    \/ obs.step = "enemy" /\ obs.branch \in {"avoid", "evade", "wander"}
          /\ obs.divisors # <<>>

----------------------------------------------------------------------------
(* The duration of the timed power-ups.                                      *)

\* C26: a timed power-up lasts its stated duration: while it is active, its
\* timer decreases by exactly dt (real, not slowed) once per tick, so that a
\* timer set to 15.0 runs for 15 seconds of tick time (invulnerability, rapid
\* fire, time slow, triple shot, magnet).
C26_TimerRunsAtDt ==
    obs.step = "begin" =>
        /\ obs.pre_player.invulnerable =>
              player.invulnerable_timer = obs.pre_player.invulnerable_timer - DT
        /\ obs.pre_player.rapid_fire =>
              player.rapid_fire_timer = obs.pre_player.rapid_fire_timer - DT
        /\ obs.pre_player.time_slow =>
              player.time_slow_timer = obs.pre_player.time_slow_timer - DT
        /\ obs.pre_player.triple_shot =>
              player.triple_shot_timer = obs.pre_player.triple_shot_timer - DT
        /\ obs.pre_player.magnet =>
              player.magnet_timer = obs.pre_player.magnet_timer - DT

----------------------------------------------------------------------------
(* The destroyed enemy on its own: Enemy.update is called tick after tick   *)
(* with the game's effective dt until the respawn timer has run out, then   *)
(* the loop of respawn draws positions until one is far enough from the     *)
(* player.                                                                   *)

\* The enemy as take_damage left it (behaviour, velocity, burst and avoidance
\* as they were), the respawn timer just started or partly run down.
DestroyedEnemies ==
    {[EnemyIn(500, 360, 90, 0, st, TRUE, TRUE, 640, 360) EXCEPT
         !.respawn_timer = t, !.vel_x = 120, !.vel_y = -40,
         !.avoiding_asteroid = TRUE, !.avoidance_timer = 4000,
         !.burst_fire_count = 2, !.burst_fire_cooldown = 13500] :
        st \in {"attack", "evade"}, t \in {RespawnTime, 20000, 3000}}

\* The draws of respawn: the position and the new ship's parameters.
RespawnDraws(p) ==
    {[x |-> d.x, y |-> d.y, rotation |-> 180, flank |-> f, pred |-> 80,
      strat_timer |-> 80000, shot_accuracy |-> 9000] :
        d \in LevelPoints(p), f \in {-1, 1}}

InitRespawn ==
    /\ \E p \in LevelPlayers, slow \in BOOLEAN :
          /\ player = [p EXCEPT !.time_slow = slow,
                                !.time_slow_timer = IF slow THEN 100000 ELSE 0]
          /\ game = [Game(TRUE) EXCEPT !.effective_dt =
                        IF slow THEN Round(DT * 167, 1000) ELSE DT]
    /\ enemy \in DestroyedEnemies
    /\ asteroids = <<>>
    /\ projectiles = <<>>
    /\ powerups = <<>>
    /\ pc = "call"
    /\ iter = <<>>
    /\ nextId = 100
    /\ ticks = 0
    /\ events = 0
    /\ game_state = Playing
    /\ obs = Unobserved

\* A call of update that leaves the enemy waiting.
EnemyWaits ==
    /\ pc = "call" /\ ~enemy.active
    /\ enemy.respawn_timer - game.effective_dt > 0
    /\ \E r \in RespawnDraws(player) :
          enemy' = EnemyUpdate(enemy, game.effective_dt, player.x, player.y,
                               SCREEN_WIDTH, SCREEN_HEIGHT, <<>>, r).e
    /\ obs' = Observe("wait")
    /\ ticks' = ticks + 1
    /\ UNCHANGED <<player, asteroids, projectiles, powerups, game, pc, iter,
                   nextId, events>>
    /\ UNCHANGED game_state

\* The call of update in which the timer runs out: respawn is entered.
EnemyExpires ==
    /\ pc = "call" /\ ~enemy.active
    /\ enemy.respawn_timer - game.effective_dt <= 0
    /\ enemy' = [enemy EXCEPT !.respawn_timer = @ - game.effective_dt]
    /\ pc' = "respawn"
    /\ obs' = Observe("expired")
    /\ ticks' = ticks + 1
    /\ UNCHANGED <<player, asteroids, projectiles, powerups, game, iter, nextId,
                   events>>
    /\ UNCHANGED game_state

\* A position too close to the player: the loop of respawn draws again.
RespawnRejected ==
    /\ pc = "respawn"
    /\ \E r \in RespawnDraws(player) :
          /\ ~RespawnSafe(r.x, r.y, player.x, player.y)
          /\ obs' = [Observe("rejected") EXCEPT !.draw = [x |-> r.x, y |-> r.y]]
    /\ UNCHANGED <<player, enemy, asteroids, projectiles, powerups, game, pc,
                   iter, nextId, ticks, events>>
    /\ UNCHANGED game_state

\* A position the loop accepts: the enemy is reset there and update returns.
RespawnAccepted ==
    /\ pc = "respawn"
    /\ \E r \in RespawnDraws(player) :
          /\ RespawnSafe(r.x, r.y, player.x, player.y)
          /\ enemy' = EnemyRespawn(enemy, r)
          /\ obs' = [Observe("respawned") EXCEPT !.draw = [x |-> r.x, y |-> r.y]]
    /\ pc' = "done"
    /\ UNCHANGED <<player, asteroids, projectiles, powerups, game, iter, nextId,
                   ticks, events>>
    /\ UNCHANGED game_state

NextRespawn == EnemyWaits \/ EnemyExpires \/ RespawnRejected \/ RespawnAccepted

\* update is called on every frame of the main loop, and a loop that draws
\* again and again does not draw rejected positions for ever.
SpecRespawn ==
    InitRespawn /\ [][NextRespawn]_vars
    /\ WF_vars(EnemyWaits) /\ WF_vars(EnemyExpires) /\ WF_vars(RespawnAccepted)

\* The inactive enemy's timer went down by the effective dt in the call, and
\* the enemy that came back did so with its timer run out, as a new ship:
\* health 4, at rest, seeking, without a last known position of the player,
\* avoidance and burst cleared, farther than 350 from the player.
RespawnAsStated ==
    /\ obs.step \in {"wait", "expired"} =>
          /\ enemy.respawn_timer = obs.pre_enemy.respawn_timer - game.effective_dt
          /\ ~enemy.active
    /\ obs.step = "wait" => enemy.respawn_timer > 0
    /\ (~obs.pre_enemy.active /\ enemy.active) =>
          /\ enemy.respawn_timer <= 0
          /\ enemy.health = EnemyMaxHealth
          /\ enemy.vel_x = 0 /\ enemy.vel_y = 0
          /\ enemy.behavior_state = "seek"
          /\ ~enemy.has_last_player_pos
          /\ ~enemy.avoiding_asteroid /\ enemy.avoidance_timer = 0
          /\ enemy.burst_fire_count = 0 /\ enemy.burst_fire_cooldown = 0
          /\ enemy.burst_fire_delay = 0
          /\ Dist2(enemy.x, enemy.y, player.x, player.y) > 350 * 350

\* C27: while the enemy is inactive its respawn_timer decreases on every
\* running tick; when it reaches <= 0 the enemy becomes active again with
\* health 4, zero velocity, behaviour seek, no last known player position,
\* avoidance and burst counters cleared, at a distance greater than 350 from
\* the player; and a destroyed enemy eventually respawns while the game keeps
\* running.
C27_EnemyRespawns == []RespawnAsStated /\ (~enemy.active ~> enemy.active)

\* The enemy respawned as a new ship after a wait of 16 calls or more (8 s
\* at dt = 0.5).
C27_Reached ==
    /\ obs.step = "respawned" /\ enemy.active /\ ticks >= 16
    /\ obs.pre_enemy.behavior_state # "seek"

\* A position within 350 of the player was drawn and rejected.
C27_ReachedRejected == obs.step = "rejected"

----------------------------------------------------------------------------
(* Asteroid avoidance, for one call of Enemy.update.                         *)

\* An asteroid within the detection radius whose distance to the enemy will
\* be smaller after a frame of dt.
Threat(e, dt) ==
    \E i \in 1..Len(asteroids) :
       LET a  == asteroids[i]
           nx == a.x + Step(a.vel_x, dt) - e.x - Step(e.vel_x, dt)
           ny == a.y + Step(a.vel_y, dt) - e.y - Step(e.vel_y, dt)
       IN  /\ Dist2(a.x, a.y, e.x, e.y) < 180 * 180
           /\ nx * nx + ny * ny < Dist2(a.x, a.y, e.x, e.y)

\* The avoidance of the enemy before the call still has time left after dt.
StillAvoiding(e, dt) == e.avoiding_asteroid /\ e.avoidance_timer - dt > 0

\* C28: asteroid avoidance preempts every other behaviour.  It starts (with
\* 1.0 s to run and a direction of +1 or -1) when an asteroid within the
\* detection radius 180 has a predicted next-frame distance smaller than its
\* current distance, and only then; until 1.0 s of dt has elapsed the enemy
\* turns in that direction by rotation_speed x dt at full thrust, its
\* behaviour state is not re-selected and update returns no fire decision.
C28_AvoidancePreempts ==
    (obs.step = "update" /\ obs.pre_enemy.active) =>
        /\ StillAvoiding(obs.pre_enemy, obs.dt) =>
              /\ enemy.avoiding_asteroid
              /\ enemy.avoidance_timer = obs.pre_enemy.avoidance_timer - obs.dt
              /\ enemy.avoidance_direction = obs.pre_enemy.avoidance_direction
              /\ enemy.behavior_state = obs.pre_enemy.behavior_state
        /\ (~StillAvoiding(obs.pre_enemy, obs.dt) /\ Threat(obs.pre_enemy, obs.dt)) =>
              /\ enemy.avoiding_asteroid
              /\ enemy.avoidance_timer = 10000
              /\ enemy.avoidance_direction \in {1, -1}
              /\ enemy.behavior_state = "evade"
        /\ (~StillAvoiding(obs.pre_enemy, obs.dt) /\ ~Threat(obs.pre_enemy, obs.dt)) =>
              ~enemy.avoiding_asteroid
        /\ enemy.avoiding_asteroid <=> obs.branch = "avoid"
        /\ enemy.avoiding_asteroid =>
              /\ ~obs.fire
              /\ enemy.acceleration = 100
              /\ enemy.rotation = obs.pre_enemy.rotation
                    + enemy.avoidance_direction * Round(160 * obs.dt, 10000)

\* An avoidance began in a call, with the player in range and the behaviour
\* timer run out.
C28_Reached ==
    /\ obs.step = "update" /\ obs.pre_enemy.active
    /\ ~obs.pre_enemy.avoiding_asteroid /\ enemy.avoiding_asteroid
    /\ obs.pre_enemy.behavior_state = "attack"
    /\ enemy.avoidance_direction = 1

\* An avoidance went on in a call in which the behaviour timer ran out.
C28_ReachedContinued ==
    /\ obs.step = "update" /\ StillAvoiding(obs.pre_enemy, obs.dt)
    /\ obs.pre_enemy.behavior_timer - obs.dt <= 0

\* An avoidance ended after 1.0 s and no asteroid was on a collision course.
C28_ReachedEnded ==
    /\ obs.step = "update" /\ obs.pre_enemy.avoiding_asteroid
    /\ ~enemy.avoiding_asteroid /\ enemy.active

----------------------------------------------------------------------------
(* Behaviour re-selection, for one call of Enemy.update.                     *)

\* The call re-selected the behaviour: the behaviour timer was set anew.
Reselected ==
    /\ obs.step = "update" /\ obs.pre_enemy.active
    /\ enemy.behavior_timer > obs.pre_enemy.behavior_timer - obs.dt

\* The square of the distance between the enemy and the player in the call.
PlayerDistance2 == Dist2(player.x, player.y, obs.pre_enemy.x, obs.pre_enemy.y)

\* The behaviours stated for a distance (squared) and a health.
StatedChoice(d2, health) ==
    IF d2 < 120 * 120 THEN {"attack", "evade"}
    ELSE IF d2 < 300 * 300
    THEN (IF health > 2 THEN {"attack", "flank", "seek"}
          ELSE {"attack", "flank", "seek", "evade"})
    ELSE {"seek", "ambush", "flank"}

\* C29: update_behavior_state chooses only from {attack, evade} when the
\* distance to the player is < 120, only from {attack, flank, seek} when
\* 120 <= distance < 300 and health > 2, with evade added when health <= 2,
\* and only from {seek, ambush, flank} when distance >= 300; it happens only
\* when the behaviour timer has run out and the enemy is not avoiding an
\* asteroid, and without it (and without an avoidance beginning) the
\* behaviour state stays as it was.
C29_Reselection ==
    (obs.step = "update" /\ obs.pre_enemy.active) =>
        /\ Reselected =>
              /\ obs.pre_enemy.behavior_timer - obs.dt <= 0
              /\ ~enemy.avoiding_asteroid
              /\ enemy.behavior_state
                    \in StatedChoice(PlayerDistance2, obs.pre_enemy.health)
        /\ (obs.pre_enemy.behavior_timer - obs.dt <= 0 /\ ~enemy.avoiding_asteroid)
              => Reselected
        /\ (~Reselected /\ (enemy.avoiding_asteroid => StillAvoiding(obs.pre_enemy, obs.dt)))
              => enemy.behavior_state = obs.pre_enemy.behavior_state

\* A damaged enemy at medium range chose evade.
C29_Reached ==
    /\ Reselected /\ obs.pre_enemy.health <= 2 /\ enemy.behavior_state = "evade"
    /\ PlayerDistance2 >= 120 * 120 /\ PlayerDistance2 < 300 * 300

\* A choice at less than 120, and one at 300 or more in each of its behaviours.
C29_ReachedClose == Reselected /\ PlayerDistance2 < 120 * 120

C29_ReachedAmbush ==
    Reselected /\ PlayerDistance2 >= 300 * 300 /\ enemy.behavior_state = "ambush"

C29_ReachedFlank ==
    /\ Reselected /\ obs.pre_enemy.health > 2 /\ enemy.behavior_state = "flank"
    /\ PlayerDistance2 >= 120 * 120 /\ PlayerDistance2 < 300 * 300

----------------------------------------------------------------------------
(* The heading correction of one call of Enemy.update.                       *)

\* The call corrected the heading toward a target angle.
Corrected == obs.step = "update" /\ obs.branch \in {"aimed", "evade", "pursuit"}

\* The degrees the call turned the enemy, counterclockwise positive.
Turn == enemy.rotation - obs.pre_enemy.rotation

\* rotation_speed * dt of the call, 1.2 times that in attack.
TurnLimit ==
    IF obs.branch = "aimed" /\ enemy.behavior_state = "attack"
    THEN Round(160 * 12 * obs.dt, 100000) ELSE Round(160 * obs.dt, 10000)

\* The angular error left after the call, against the same target angle.
ErrorAfter == AngleDiff(obs.pre_enemy.rotation + obs.angle_diff, enemy.rotation)

\* C30: each heading correction turns the enemy toward its target angle by at
\* most rotation_speed * dt (1.2 times that in attack) and by no more than the
\* remaining angular error, so the enemy never rotates past the target angle
\* and a correction never increases the absolute angular error.
C30_NoOvershoot ==
    Corrected =>
        /\ Turn * obs.angle_diff >= 0
        /\ Abs(Turn) <= TurnLimit
        /\ Abs(Turn) <= Abs(obs.angle_diff)
        /\ ErrorAfter * obs.angle_diff >= 0
        /\ Abs(ErrorAfter) = Abs(obs.angle_diff) - Abs(Turn)
        /\ Abs(ErrorAfter) <= Abs(obs.angle_diff)

\* A correction that the remaining error cut short of rotation_speed * dt.
C30_Reached ==
    Corrected /\ Turn # 0 /\ Abs(Turn) = Abs(obs.angle_diff) /\ Abs(Turn) < TurnLimit

\* A correction of the whole rotation_speed * dt that leaves an error, and one
\* in attack at 1.2 times the speed.
C30_ReachedLimit ==
    Corrected /\ Abs(Turn) = TurnLimit /\ Abs(Turn) < Abs(obs.angle_diff)

C30_ReachedAttack ==
    /\ Corrected /\ enemy.behavior_state = "attack" /\ Abs(Turn) = TurnLimit
    /\ TurnLimit > Round(160 * obs.dt, 10000)

----------------------------------------------------------------------------
(* Enemy.update frame after frame: an enemy 450 to the left of a player at   *)
(* rest, heading at it or 15 degrees off, in either firing mode, called with *)
(* a dt of 0.05 s for 1.8 s.                                                 *)

MaxFireTicks == 36

\* The dt of a frame at 20 frames per second: the intra-burst delay is 3 frames.
FireDt == 500

\* The accuracy test passes (draw 0) or fails (draw 0.9999).
FireDraws == {r \in EnemyDraws : r.beh = 2000}

InitFire ==
    /\ player = Player(SCREEN_WIDTH \div 2, SCREEN_HEIGHT \div 2)
    /\ enemy \in {[EnemyIn(190, 360, h, 3, "seek", burst, TRUE, 640, 360) EXCEPT
                      !.strategy_change_timer = t] :
                    h \in {0, 15}, burst \in BOOLEAN, t \in {10000, 80000}}
    /\ asteroids = <<>>
    /\ projectiles = <<>>
    /\ powerups = <<>>
    /\ game = Game(TRUE)
    /\ pc = "call"
    /\ iter = <<>>
    /\ nextId = 100
    /\ ticks = 0
    /\ events = 0
    /\ game_state = Playing
    /\ obs = Unobserved

\* The enemy and the record of the frame after Enemy.update returned u.
FrameCalled(u) ==
    /\ enemy' = u.e
    /\ obs' = [Observe("update") EXCEPT
                 !.fire = u.fire, !.branch = u.branch, !.angle_diff = u.angle_diff,
                 !.target = u.target,
                 !.divisors = u.divisors, !.dt = FireDt,
                 !.clock = ticks * FireDt,
                 !.shots = IF u.fire
                           THEN @ \o <<[t |-> ticks * FireDt,
                                        burst |-> u.e.burst_mode,
                                        branch |-> u.branch]>>
                           ELSE @]

CallEnemyFrame ==
    /\ pc = "call" /\ ticks < MaxFireTicks
    /\ \E r \in FireDraws :
          FrameCalled(EnemyUpdate(enemy, FireDt, player.x, player.y, SCREEN_WIDTH,
                                  SCREEN_HEIGHT, asteroids, r))
    /\ ticks' = ticks + 1
    /\ UNCHANGED <<player, asteroids, projectiles, powerups, game, pc, iter,
                   nextId, events>>
    /\ UNCHANGED game_state

NextFire == CallEnemyFrame

SpecFire == InitFire /\ [][NextFire]_vars

\* The time between the last fire decision and the one before it.
LastGap == obs.shots[Len(obs.shots)].t - obs.shots[Len(obs.shots) - 1].t

\* The last two fire decisions were both made by the shooting logic in the
\* firing mode burst.
LastTwoIn(burst) ==
    /\ Len(obs.shots) >= 2
    /\ \A i \in {Len(obs.shots) - 1, Len(obs.shots)} :
          obs.shots[i].burst = burst /\ obs.shots[i].branch = "aimed"

\* The number of fire decisions that end the log at the intra-burst delay
\* from one another.
RECURSIVE BurstLength(_)
BurstLength(i) ==
    IF i > 1 /\ obs.shots[i].t - obs.shots[i - 1].t = 1500
    THEN 1 + BurstLength(i - 1) ELSE 1

\* C31: in burst mode with the target inside the aim cone, fire decisions
\* come in bursts of exactly 3 shots spaced by the intra-burst delay (0.15 s),
\* and after the third shot of a burst no fire decision is made until the
\* post-burst cooldown (1.5 * shoot_rate = 1.35 s) has elapsed; in normal mode
\* consecutive fire decisions are at least shoot_rate (0.9 s) apart.
C31_BurstsOfThree ==
    /\ LastTwoIn(TRUE) =>
          \/ LastGap = 1500 /\ BurstLength(Len(obs.shots)) <= 3
          \/ LastGap >= 13500 /\ BurstLength(Len(obs.shots) - 1) = 3
    /\ LastTwoIn(FALSE) => LastGap >= 9000

\* What the code keeps: in normal mode consecutive fire decisions are at
\* least shoot_rate apart, and in burst mode the second and the third
\* decision of the burst logic come at the intra-burst delay.
C31_NormalSpacing == LastTwoIn(FALSE) => LastGap >= 9000

\* Two fire decisions in normal mode.
C31_ReachedNormal == LastTwoIn(FALSE)

\* Two fire decisions in burst mode 0.15 s apart.
C31_ReachedDelay == LastTwoIn(TRUE) /\ LastGap = 1500

----------------------------------------------------------------------------
(* take_damage on its own: an active enemy of any health, behaviour and      *)
(* accuracy, hit up to three times.                                          *)

MaxDamageCalls == 3

\* shot_accuracy as __init__ draws it (0.85 .. 0.97) and as raised by damage.
Accuracies == {8500, 9000, 9600, 9700, 9900}

DamagedStates ==
    {[EnemyIn(500, 360, 0, health, st, FALSE, TRUE, 640, 360) EXCEPT
         !.shot_accuracy = a] :
        health \in 1 .. EnemyMaxHealth, a \in Accuracies,
        st \in {"seek", "attack", "ambush", "flank", "evade"}}

InitDamage ==
    /\ player = Player(SCREEN_WIDTH \div 2, SCREEN_HEIGHT \div 2)
    /\ enemy \in DamagedStates
    /\ asteroids = <<>>
    /\ projectiles = <<>>
    /\ powerups = <<>>
    /\ game = Game(TRUE)
    /\ pc = "call"
    /\ iter = <<>>
    /\ nextId = 100
    /\ ticks = 0
    /\ events = 0
    /\ game_state = Playing
    /\ obs = Unobserved

\* take_damage() of an active enemy, as its callers guard it; kill records
\* that it returned True.
CallTakeDamage ==
    /\ pc = "call" /\ ticks < MaxDamageCalls /\ enemy.active
    /\ \E react \in {0, 4999, 5000, 9999} :
          LET t == EnemyTakeDamage(enemy, [react |-> react])
          IN  /\ enemy' = t.e
              /\ obs' = [Observe("take_damage") EXCEPT
                           !.damage = 1,
                           !.kill = IF t.destroyed THEN "reported" ELSE ""]
    /\ ticks' = ticks + 1
    /\ UNCHANGED <<player, asteroids, projectiles, powerups, game, pc, iter,
                   nextId, events>>
    /\ UNCHANGED game_state

NextDamage == CallTakeDamage

SpecDamage == InitDamage /\ [][NextDamage]_vars

\* C32: a take_damage call that leaves health > 0 decrements health by
\* exactly 1, keeps the enemy active and leaves its behaviour state in
\* {attack, evade}; shot_accuracy never decreases through damage and never
\* exceeds 0.99; a call that brings health to <= 0 deactivates the enemy, sets
\* respawn_timer to 8.0 and reports destruction.
C32_TakeDamage ==
    obs.step = "take_damage" =>
        /\ enemy.health = obs.pre_enemy.health - 1
        /\ enemy.shot_accuracy >= obs.pre_enemy.shot_accuracy
        /\ enemy.shot_accuracy <= 9900
        /\ enemy.health > 0 =>
              /\ enemy.active
              /\ enemy.behavior_state \in {"attack", "evade"}
              /\ obs.kill = ""
        /\ enemy.health <= 0 =>
              /\ ~enemy.active
              /\ enemy.respawn_timer = 80000
              /\ obs.kill = "reported"

\* A hit that raised the accuracy to the limit of 0.99 and left the enemy alive.
C32_Reached ==
    /\ obs.step = "take_damage" /\ enemy.health > 0
    /\ obs.pre_enemy.shot_accuracy = 9600 /\ enemy.shot_accuracy = 9900

\* A hit that destroyed the enemy, and one that left it in evade.
C32_ReachedDestroyed ==
    obs.step = "take_damage" /\ obs.pre_enemy.health = 1 /\ ~enemy.active

C32_ReachedEvade ==
    /\ obs.step = "take_damage" /\ enemy.health > 0
    /\ obs.pre_enemy.behavior_state = "seek" /\ enemy.behavior_state = "evade"

----------------------------------------------------------------------------
(* The target point of flank, for one call of Enemy.update.                  *)

\* The call steered a flanking enemy at a detected player whose position
\* changed since the sample the enemy held when the call began.
FlankedMovedPlayer ==
    /\ obs.step = "update" /\ obs.branch = "aimed"
    /\ enemy.behavior_state = "flank"
    /\ obs.pre_enemy.has_last_player_pos
    /\ <<obs.pre_enemy.last_x, obs.pre_enemy.last_y>> # <<player.x, player.y>>

\* The distance (squared) between the target point and the player.
TargetOff2 == Dist2(obs.target[1], obs.target[2], player.x, player.y)

\* C33: in flank state with the player detected, whenever the player's
\* position changed since the last recorded sample the enemy's target point
\* is the player's predicted position displaced by 150 perpendicular to the
\* player's estimated heading, on the side given by flanking_direction, so
\* the target differs from the player's current position.
C33_FlankDisplaced ==
    FlankedMovedPlayer =>
        /\ obs.target # <<player.x, player.y>>
        /\ obs.target = EnemyTarget(
                            [enemy EXCEPT !.last_x = obs.pre_enemy.last_x,
                                          !.last_y = obs.pre_enemy.last_y],
                            player.x, player.y)

\* What the code does: the sample is overwritten with the player's position
\* before the target is computed, and the target of flank is that position.
C33_FlankAtPlayer ==
    (obs.step = "update" /\ obs.branch = "aimed" /\ enemy.behavior_state = "flank")
        => obs.target = <<player.x, player.y>>

C33_ReachedFlank == FlankedMovedPlayer

----------------------------------------------------------------------------
(* The projectile and the enemy, for one iteration of "Update projectiles".  *)

\* The projectile of the iteration, as moved by it.
Visited ==
    WrapProjectile(ProjectileUpdate(ById(obs.pre_projectiles, obs.visited),
                                    game.effective_dt))

\* The iteration reached "Check collision with enemy" and the projectile
\* collides with the active enemy.
EnemyCollided ==
    /\ obs.step = "projectile" /\ InList(obs.pre_projectiles, obs.visited)
    /\ Visited.life > 0
    /\ ~(~obs.pre_player.invulnerable /\ CheckCollision(Visited, obs.pre_player))
    /\ obs.pre_enemy.active /\ CheckCollision(Visited, obs.pre_enemy)

\* The whole degrees between the player's rotation and the angle of the
\* projectile's velocity: below 0.5 rad is at most 28 degrees, above
\* 2 pi - 0.5 rad at least 332.
OwnerAngle ==
    Abs(obs.pre_player.rotation - Atan2Deg(Visited.vel_y, Visited.vel_x))

\* C34: a projectile that collides with the active enemy is always removed
\* from the projectile collection in that tick; it damages the enemy iff the
\* absolute difference between the player's current rotation and the
\* projectile's velocity angle is < 0.5 rad or > 2 pi - 0.5 rad, so a
\* projectile fired by the enemy itself never damages the enemy unless it
\* satisfies that test.
C34_OwnerByAngle ==
    EnemyCollided =>
        /\ ~InList(projectiles, obs.visited)
        /\ (enemy.health = obs.pre_enemy.health - 1)
              <=> (OwnerAngle <= 28 \/ OwnerAngle >= 332)
        /\ enemy.health \in {obs.pre_enemy.health, obs.pre_enemy.health - 1}
        /\ ~(OwnerAngle <= 28 \/ OwnerAngle >= 332) => enemy = obs.pre_enemy

\* A projectile that damaged the enemy.
C34_Reached == EnemyCollided /\ enemy.health = obs.pre_enemy.health - 1

\* A projectile that collided with the enemy and did not damage it, and one
\* that damaged it at an angle above 2 pi - 0.5 rad.
C34_ReachedHarmless == EnemyCollided /\ enemy = obs.pre_enemy

C34_ReachedAbove == EnemyCollided /\ OwnerAngle >= 332

----------------------------------------------------------------------------
(* The game frame after frame: update called with a dt of 0.05 s, shorter    *)
(* than the player's cooldown, the player holding the fire key or not, with  *)
(* or without rapid fire and triple shot, the cooldown run out or running.   *)

ShootingPlayers ==
    {[PlayerAt(400, 300, PlayerLives, shooting) EXCEPT
         !.shoot_cooldown = cd,
         !.rapid_fire = rapid, !.rapid_fire_timer = IF rapid THEN 100000 ELSE 0,
         !.triple_shot = triple, !.triple_shot_timer = IF triple THEN 100000 ELSE 0] :
        shooting \in BOOLEAN, cd \in {0, 1000, 2000}, rapid \in BOOLEAN,
        triple \in BOOLEAN}

InitShoot ==
    /\ player \in ShootingPlayers
    /\ enemy = EnemyAt(1100, 650, 0, EnemyMaxHealth)
    /\ asteroids = <<Asteroid(1, 1000, 100, 0, 0, "large", "normal")>>
    /\ projectiles = <<Projectile(2, 100, 600, 0, -100)>>
    /\ powerups = <<Powerup(3, 700, 500, 0, 0, "shield")>>
    /\ game = [Game(TRUE) EXCEPT !.dt = FireDt, !.effective_dt = FireDt]
    /\ pc = "idle"
    /\ iter = <<>>
    /\ nextId = 100
    /\ ticks = 0
    /\ events = 0
    /\ game_state = Playing
    /\ obs = Unobserved

SpecShoot == InitShoot /\ [][Next]_vars

\* The projectiles the head of the tick added.
Added == Len(projectiles) - Len(obs.pre_projectiles)

\* shoot_cooldown as Player.update left it, before "Handle player shooting".
CountedDown == PlayerUpdate(obs.pre_player, game.dt).shoot_cooldown

\* C35: the player emits projectiles only on a running tick where is_shooting
\* is set and shoot_cooldown <= 0; such a tick adds exactly 1 projectile
\* (exactly 3 when triple_shot is active) and resets shoot_cooldown to 0.2
\* (0.1 with rapid fire), and no further player projectile is added until the
\* cooldown has counted down to <= 0.
C35_PlayerShoots ==
    /\ obs.step = "game_over" => projectiles = obs.pre_projectiles
    /\ obs.step = "begin" =>
          /\ Added > 0 <=> (obs.pre_player.is_shooting /\ CountedDown <= 0)
          /\ Added > 0 =>
                /\ Added = IF player.triple_shot THEN 3 ELSE 1
                /\ player.shoot_cooldown = IF player.rapid_fire THEN 1000 ELSE 2000
          /\ Added = 0 =>
                /\ projectiles = obs.pre_projectiles
                /\ player.shoot_cooldown = CountedDown
          /\ (obs.pre_player.shoot_cooldown > 0 /\ ~obs.pre_player.rapid_fire) =>
                CountedDown = obs.pre_player.shoot_cooldown - game.dt

\* The fire key held and the cooldown still running: no projectile is added.
C35_Reached ==
    /\ obs.step = "begin" /\ obs.pre_player.is_shooting /\ CountedDown > 0
    /\ Added = 0

\* A shot, a triple shot, and a shot on the tick on which a running cooldown
\* runs out.
C35_ReachedShot == obs.step = "begin" /\ Added = 1 /\ player.shoot_cooldown = 2000

C35_ReachedTriple == obs.step = "begin" /\ Added = 3

C35_ReachedAgain ==
    /\ obs.step = "begin" /\ Added > 0
    /\ obs.pre_player.shoot_cooldown > 0 /\ CountedDown <= 0

----------------------------------------------------------------------------
(* The game that is over, and its restart.                                   *)

\* The step left the player, the enemy, the collections and the game
\* variables (score, level, game_over among them) as they were.
NothingChanged ==
    /\ player = obs.pre_player /\ enemy = obs.pre_enemy
    /\ asteroids = obs.pre_asteroids /\ projectiles = obs.pre_projectiles
    /\ powerups = obs.pre_powerups /\ game = obs.pre_game

\* The step handled the R key going down.
PressedR == obs.step = "event" /\ obs.key = <<"r", TRUE>>

\* C36: once game_over is set, every later tick leaves score, level, lives,
\* the player, the enemy and the asteroid, projectile and powerup collections
\* unchanged and player input events are ignored, until the R key restarts
\* the game; the restart discards all entity collections and resets score to
\* 0, level to 1, lives to 3 and game_over to false, and R has no effect
\* while the game is running.
C36_GameOverUntilRestart ==
    /\ obs.step = "begin" => ~obs.pre_game.game_over
    /\ obs.step = "game_over" =>
          obs.pre_game.game_over /\ NothingChanged /\ obs.pre_id = nextId
    /\ (obs.step = "event" /\ obs.pre_game.game_over /\ ~PressedR) =>
          NothingChanged
    /\ (PressedR /\ obs.pre_game.game_over) =>
          /\ game.score = 0 /\ game.level = 1 /\ ~game.game_over
          /\ player = Player(SCREEN_WIDTH \div 2, SCREEN_HEIGHT \div 2)
          /\ player.lives = 3
          /\ enemy.active /\ enemy.health = EnemyMaxHealth
          /\ enemy.x = 100 /\ enemy.y = 100
          /\ projectiles = <<>> /\ powerups = <<>>
          /\ IdSet(asteroids) \cap IdSet(obs.pre_asteroids) = {}
          /\ Len(asteroids) = 3
    /\ (obs.step = "event" /\ obs.key[1] = "r" /\ ~obs.pre_game.game_over) =>
          NothingChanged

\* A tick of a game that is over.
C36_Reached ==
    /\ obs.step = "game_over" /\ obs.pre_player.lives <= 0
    /\ obs.pre_asteroids # <<>>

\* A restart that discarded asteroids, an input event of the player ignored,
\* and R pressed in a running game.
C36_ReachedRestart ==
    PressedR /\ obs.pre_game.game_over /\ obs.pre_asteroids # <<>>

C36_ReachedIgnored ==
    /\ obs.step = "event" /\ obs.pre_game.game_over /\ obs.key = <<"space", TRUE>>
    /\ ~player.is_shooting

C36_ReachedRunning == PressedR /\ ~obs.pre_game.game_over

----------------------------------------------------------------------------
(* The invulnerable player.                                                  *)

\* What the code keeps: a step of the enemy, of the asteroid loop or of the
\* projectile loop that begins with the player invulnerable leaves the player
\* as it was, and the powerup loop collects for an invulnerable player too.
C37_NoHarmWhileInvulnerable ==
    (obs.step \in {"enemy", "asteroids", "projectile"} /\ obs.pre_player.invulnerable)
        => player = obs.pre_player

\* C37: while the player is invulnerable (shield or post-respawn), no
\* collision with the enemy, an asteroid or a projectile decreases lives or
\* repositions the player, while powerups are still collected; consequently
\* lives decreases by at most 1 in any single tick.
C37_OneDeathPerTick ==
    /\ C37_NoHarmWhileInvulnerable
    /\ Len(obs.deaths) <= 1
    /\ obs.deaths # <<>> => player.lives >= obs.deaths[1].lives - 1

\* An invulnerable player collected a powerup.
C37_ReachedCollected ==
    /\ obs.step = "powerups" /\ obs.pre_player.invulnerable
    /\ Len(obs.collected) > 0

\* An invulnerable player under an asteroid, the enemy or a projectile.
C37_ReachedSpared ==
    /\ obs.step \in {"enemy", "asteroids", "projectile"} /\ obs.pre_player.invulnerable
    /\ \/ \E i \in 1..Len(asteroids) : CheckCollision(player, asteroids[i])
       \/ \E i \in 1..Len(projectiles) : CheckCollision(player, projectiles[i])
       \/ enemy.active /\ CheckCollision(player, enemy)

----------------------------------------------------------------------------
(* GameState on its own: change_state, push_state and pop_state called in   *)
(* any order on a GameState as constructed, with menu and gameplay states.  *)

MaxStack == 3
MaxStackCalls == 4

\* The state objects passed to change_state and push_state.
StackObjects ==
    {MenuState(FALSE), MenuState(TRUE), GameplayObject(1), GameplayObject(2)}

InitStack ==
    /\ player = Player(SCREEN_WIDTH \div 2, SCREEN_HEIGHT \div 2)
    /\ enemy = Enemy(0, 0, [flank |-> 1, shot_accuracy |-> 9000,
                            strat_timer |-> 80000])
    /\ asteroids = <<>>
    /\ projectiles = <<>>
    /\ powerups = <<>>
    /\ game = Game(TRUE)
    /\ pc = "call"
    /\ iter = <<>>
    /\ nextId = 100
    /\ ticks = 0
    /\ events = 0
    /\ game_state = GameState
    /\ obs = Unobserved

\* change_state(new_state).
CallChangeState ==
    /\ pc = "call" /\ ticks < MaxStackCalls
    /\ \E new_state \in StackObjects :
          /\ game_state' = ChangeState(game_state, new_state)
          /\ obs' = [Observe("change_state") EXCEPT !.arg = new_state]
    /\ ticks' = ticks + 1
    /\ UNCHANGED <<player, enemy, asteroids, projectiles, powerups, game, pc,
                   iter, nextId, events>>

\* push_state(new_state).
CallPushState ==
    /\ pc = "call" /\ ticks < MaxStackCalls
    /\ Len(game_state.states_stack) < MaxStack
    /\ \E new_state \in StackObjects :
          /\ game_state' = PushState(game_state, new_state)
          /\ obs' = [Observe("push_state") EXCEPT !.arg = new_state]
    /\ ticks' = ticks + 1
    /\ UNCHANGED <<player, enemy, asteroids, projectiles, powerups, game, pc,
                   iter, nextId, events>>

\* pop_state().
CallPopState ==
    /\ pc = "call" /\ ticks < MaxStackCalls
    /\ LET p == PopState(game_state)
       IN  /\ game_state' = p.gs
           /\ obs' = [Observe("pop_state") EXCEPT !.ret = p.ret]
    /\ ticks' = ticks + 1
    /\ UNCHANGED <<player, enemy, asteroids, projectiles, powerups, game, pc,
                   iter, nextId, events>>

NextStack ==
    \/ CallChangeState
    \/ CallPushState
    \/ CallPopState

SpecStack == InitStack /\ [][NextStack]_vars

\* C38: after any sequence of change_state, push_state and pop_state,
\* current_state is the top of states_stack whenever the stack is not empty;
\* change_state leaves exactly one state on the stack, the new one; pop_state
\* never empties the stack: with at most a single state it returns False and
\* changes nothing, otherwise it removes the top and returns True.
C38_StackDiscipline ==
    LET stack == game_state.states_stack
        before == obs.pre_game_state.states_stack
    IN  /\ Len(stack) > 0 => game_state.current_state = stack[Len(stack)]
        /\ obs.step = "change_state" => stack = <<obs.arg>>
        /\ obs.step = "push_state" => stack = Append(before, obs.arg)
        /\ obs.step = "pop_state" =>
              /\ Len(before) > 0 => Len(stack) > 0
              /\ IF Len(before) <= 1
                 THEN ~obs.ret /\ game_state = obs.pre_game_state
                 ELSE /\ obs.ret
                      /\ stack = SubSeq(before, 1, Len(before) - 1)

\* A pop_state that removed the top of a stack of several states.
C38_Reached ==
    /\ obs.step = "pop_state" /\ obs.ret
    /\ Len(obs.pre_game_state.states_stack) > 1

\* A pop_state refused with a single state left.
C38_ReachedRefused ==
    /\ obs.step = "pop_state" /\ ~obs.ret
    /\ Len(obs.pre_game_state.states_stack) = 1

\* A change_state on a stack of several states.
C38_ReachedChanged ==
    /\ obs.step = "change_state"
    /\ Len(obs.pre_game_state.states_stack) > 1

----------------------------------------------------------------------------
(* The game with its pause menu: ESC during gameplay, the keys of the menu, *)
(* and the frames that pass while the menu is the current state.            *)

MaxPauseEvents == 5

\* The keys MenuState.handle_event reads.
MenuKeys == {"up", "down", "return", "escape"}

\* menu_options of a MenuState.
MenuOptions(m) ==
    IF m.resume_available
    THEN <<"Resume Game", "New Game", "Options", "Credits", "Quit">>
    ELSE <<"New Game", "Options", "Credits", "Quit">>

\* A select_option that reads the selection as in a menu without Resume.
SelectOptionNoResume(m) ==
    <<"New Game", "Options", "Credits", "Quit", "Quit">>[m.selected_option + 1]

\* select_option(): the branch the selected option takes.
SelectOption(m) ==
    IF m.resume_available
    THEN <<"Resume Game", "New Game", "Options", "Credits", "Quit">>
            [m.selected_option + 1]
    ELSE <<"New Game", "Options", "Credits", "Quit">>[m.selected_option + 1]

\* The menu object changed in place: current_state and the top of the stack
\* are the same object.
SetMenu(gs, m) ==
    [gs EXCEPT !.current_state = m,
               !.states_stack = [@ EXCEPT ![Len(@)] = m]]

\* change_state(GameplayState(self.game_state)): a new GameplayState object,
\* its __init__ running initialize_game().
NewGameplayState ==
    \E r \in InitDraws :
        LET new == InitializeGame(game, nextId, r)
        IN  /\ player' = new.player
            /\ enemy' = new.enemy
            /\ asteroids' = new.asteroids
            /\ projectiles' = new.projectiles
            /\ powerups' = new.powerups
            /\ game' = [new.game EXCEPT !.id = game.id + 1]
            /\ nextId' = nextId + Len(new.asteroids)
            /\ game_state' = ChangeState(game_state,
                                         GameplayObject(game.id + 1))
            /\ pc' = pc

\* MenuState.handle_event for a key going down.
MenuHandleKey(m, key) ==
    IF m.showing_credits
    THEN /\ game_state' = IF key \in {"escape", "return"}
                          THEN SetMenu(game_state,
                                       [m EXCEPT !.showing_credits = FALSE])
                          ELSE game_state
         /\ UNCHANGED <<player, enemy, asteroids, projectiles, powerups, game,
                        nextId, pc>>
    ELSE IF key \in {"up", "down"}
    THEN /\ game_state' =
               SetMenu(game_state,
                       [m EXCEPT !.selected_option =
                          (@ + (IF key = "up" THEN -1 ELSE 1))
                             % Len(MenuOptions(m))])
         /\ UNCHANGED <<player, enemy, asteroids, projectiles, powerups, game,
                        nextId, pc>>
    ELSE IF key = "return"
    THEN LET option == SelectOption(m)
         IN  IF option = "Resume Game"
                /\ game_state.paused_gameplay_state # NoState
             THEN /\ game_state' =
                        ChangeState(game_state,
                                    game_state.paused_gameplay_state)
                  /\ UNCHANGED <<player, enemy, asteroids, projectiles,
                                 powerups, game, nextId, pc>>
             ELSE IF option \in {"Resume Game", "New Game"}
             THEN NewGameplayState
             ELSE IF option = "Credits"
             THEN /\ game_state' =
                        SetMenu(game_state,
                                [m EXCEPT !.showing_credits = TRUE])
                  /\ UNCHANGED <<player, enemy, asteroids, projectiles,
                                 powerups, game, nextId, pc>>
             ELSE IF option = "Quit"
             THEN /\ pc' = "exit"
                  /\ UNCHANGED <<player, enemy, asteroids, projectiles,
                                 powerups, game, nextId, game_state>>
             ELSE UNCHANGED <<player, enemy, asteroids, projectiles, powerups,
                              game, nextId, pc, game_state>>
    ELSE UNCHANGED <<player, enemy, asteroids, projectiles, powerups, game,
                     nextId, pc, game_state>>

\* GameState.handle_event passing the ESC key to the GameplayState.
PressEscape ==
    /\ pc = "idle" /\ events < MaxPauseEvents
    /\ game_state.current_state = GameplayObject(game.id)
    /\ HandleKey("escape", TRUE)
    /\ events' = events + 1
    /\ UNCHANGED <<pc, iter, ticks>>

\* GameState.handle_event passing a key going down to the MenuState.
MenuEvent ==
    /\ pc = "idle" /\ events < MaxPauseEvents
    /\ game_state.current_state.kind = "MenuState"
    /\ \E key \in MenuKeys :
          /\ MenuHandleKey(game_state.current_state, key)
          /\ obs' = [Observe("menu_event") EXCEPT !.key = <<key, TRUE>>]
    /\ events' = events + 1
    /\ UNCHANGED <<iter, ticks>>

\* GameState.update passing the frame to the MenuState, whose update moves
\* the stars of its background.
MenuUpdate ==
    /\ pc = "idle" /\ ticks < MaxTicks
    /\ game_state.current_state.kind = "MenuState"
    /\ ticks' = ticks + 1
    /\ obs' = Observe("menu_update")
    /\ UNCHANGED <<player, enemy, asteroids, projectiles, powerups, game, pc,
                   iter, nextId, events, game_state>>

\* The game at a start of a level, in a duel or before a crash.
InitPause ==
    /\ \E sc \in SceneStart \cup SceneDuel \cup SceneCrash :
          /\ player = sc.player
          /\ enemy = sc.enemy
          /\ asteroids = sc.asteroids
          /\ projectiles = sc.projectiles
          /\ powerups = sc.powerups
          /\ game = sc.game
    /\ pc = "idle"
    /\ iter = <<>>
    /\ nextId = 100
    /\ ticks = 0
    /\ events = 0
    /\ game_state = Playing
    /\ obs = Unobserved

NextPause ==
    \/ PressEscape
    \/ MenuEvent
    \/ MenuUpdate
    \/ UpdateBegin
    \/ UpdateEnemy
    \/ UpdateAsteroids
    \/ UpdateProjectile
    \/ UpdatePowerups

SpecPause == InitPause /\ [][NextPause]_vars

\* The step handled the ESC key going down in the game.
PressedEscape == obs.step = "event" /\ obs.key = <<"escape", TRUE>>

\* The step handled RETURN in the pause menu, its option of index i selected.
Chose(i) ==
    /\ obs.step = "menu_event" /\ obs.key = <<"return", TRUE>>
    /\ obs.pre_game_state.current_state.kind = "MenuState"
    /\ obs.pre_game_state.current_state.resume_available
    /\ ~obs.pre_game_state.current_state.showing_credits
    /\ obs.pre_game_state.current_state.selected_option = i

\* The gameplay state is as initialize_game() leaves it.
FreshGame ==
    /\ game.score = 0 /\ game.level = 1 /\ ~game.game_over
    /\ player = Player(SCREEN_WIDTH \div 2, SCREEN_HEIGHT \div 2)
    /\ player.lives = PlayerLives
    /\ enemy.active /\ enemy.health = EnemyMaxHealth
    /\ enemy.x = 100 /\ enemy.y = 100
    /\ projectiles = <<>> /\ powerups = <<>>
    /\ Len(asteroids) = 3
    /\ \A i \in 1..Len(asteroids) : asteroids[i].id >= obs.pre_id

\* C39: ESC during gameplay makes a menu with a Resume option the current
\* state and keeps the gameplay state; while that menu is the current state
\* the gameplay state stays as it was at the ESC press; Resume makes that
\* very gameplay state current again, its score, level, lives and entities as
\* they were at the ESC press; New Game makes a freshly initialised gameplay
\* state, another object, current.
C39_PauseAndResume ==
    /\ PressedEscape =>
          /\ game_state.current_state = MenuState(TRUE)
          /\ MenuOptions(game_state.current_state)[1] = "Resume Game"
          /\ game_state.paused_gameplay_state
                = obs.pre_game_state.current_state
          /\ game_state.paused_gameplay_state = GameplayObject(game.id)
          /\ NothingChanged
    /\ game_state.current_state.kind = "MenuState"
       /\ game_state.current_state.resume_available =>
          /\ Gameplay = obs.paused
          /\ game_state.paused_gameplay_state = GameplayObject(game.id)
    /\ Chose(0) =>
          /\ game_state.current_state
                = obs.pre_game_state.paused_gameplay_state
          /\ game_state.current_state = GameplayObject(game.id)
          /\ game_state.states_stack = <<GameplayObject(game.id)>>
          /\ Gameplay = obs.paused
    /\ Chose(1) =>
          /\ game_state.current_state = GameplayObject(game.id)
          /\ game_state.current_state
                # obs.pre_game_state.paused_gameplay_state
          /\ FreshGame

\* Resume chosen for a game with projectiles in flight, a frame having passed.
C39_Reached ==
    /\ Chose(0) /\ ticks > 0 /\ Len(projectiles) > 0

\* New Game chosen over a paused game with fewer than three lives.
C39_ReachedNewGame ==
    /\ Chose(1) /\ obs.paused.player.lives < PlayerLives

\* A frame passes while the pause menu is the current state.
C39_ReachedPaused ==
    /\ obs.step = "menu_update"
    /\ game_state.current_state.resume_available
    /\ Len(asteroids) > 0

\* The first tick of a resumed game ends.
C39_ReachedResumed ==
    /\ pc = "idle" /\ obs.step \notin {"event", "menu_event", "menu_update", "init"}
    /\ game_state.paused_gameplay_state = game_state.current_state

====
